---- MODULE Spec2Model ----
(***************************************************************************)
(* Verification pipeline of the dental-insurance eligibility system.       *)
(*                                                                         *)
(* Status Deriver: deriveVerificationStatusFromTransactions folds a        *)
(* patient's transaction list, sorted by startTime, into the four-stage    *)
(* status vector (fetchPMS, apiVerification, aiAnalysisAndCall, saveToPMS).*)
(***************************************************************************)
EXTENDS Integers, Sequences, FiniteSets, TLC

(***************************************************************************)
(* Bounds of the model.                                                    *)
(***************************************************************************)
\* longest transaction list handed to the Deriver
MaxLen == 2
\* startTime values are 1..MaxTime (milliseconds of new Date(...).getTime())
MaxTime == 2

(***************************************************************************)
(* Data model: Transaction and VerificationStatus.                         *)
(***************************************************************************)
\* Transaction.type; "OTHER" stands for any value outside the declared union
\* (the switch has no default branch).
TxnTypes == {"FETCH", "API", "CALL", "FAX", "SAVE", "OTHER"}

\* Transaction.status
TxnStatuses == {"SUCCESS", "PARTIAL", "FAILED", "Waiting"}

\* A startTime that is falsy in `!a.startTime` (undefined, null or "").
NoStartTime == 0

StartTimes == {NoStartTime} \cup (1..MaxTime)

\* The stages of VerificationStatus, in pipeline order.
StageOrder == <<"fetchPMS", "apiVerification", "aiAnalysisAndCall", "saveToPMS">>

Stages == {StageOrder[k] : k \in 1..Len(StageOrder)}

StageValues == {"pending", "in_progress", "completed"}

\* The fields of a Transaction the Deriver reads, plus its id.
\* In a list handed to the Deriver the id is the position in the list.
TxnBodies == [type : TxnTypes, status : TxnStatuses, startTime : StartTimes]

\* The list whose k-th transaction has the body f[k].
MakeList(f) ==
    [k \in DOMAIN f |-> [id |-> k, type |-> f[k].type, status |-> f[k].status,
                         startTime |-> f[k].startTime]]

\* const status = { fetchPMS: 'pending', ... }
InitialStatus == [s \in Stages |-> "pending"]

(***************************************************************************)
(* The sort of sortedTransactions.                                         *)
(***************************************************************************)
\* Compare with the two early returns exchanged: no startTime sorts first.
Compare_MissingFirst(a, b) ==
    IF a.startTime = NoStartTime THEN -1
    ELSE IF b.startTime = NoStartTime THEN 1
    ELSE a.startTime - b.startTime

\* The comparator handed to Array.prototype.sort.
Compare(a, b) ==
    IF a.startTime = NoStartTime THEN 1
    ELSE IF b.startTime = NoStartTime THEN -1
    ELSE a.startTime - b.startTime

\* The comparator answers 1 for two transactions without startTime in either
\* argument order, so it is not a consistent comparator and the order of such
\* a pair is implementation-defined.  An engine is modelled as a stable
\* insertion sort that asks the comparator either (new element, placed
\* element) or (placed element, new element).
Engines == {"newFirst", "placedFirst"}

\* Does the engine move the new element x in front of the placed element y?
MovesBefore(x, y, eng) ==
    IF eng = "newFirst" THEN Compare(x, y) < 0 ELSE Compare(y, x) > 0

RECURSIVE Insert(_, _, _)
Insert(placed, x, eng) ==
    IF placed = <<>> THEN <<x>>
    ELSE IF MovesBefore(x, placed[Len(placed)], eng)
         THEN Append(Insert(SubSeq(placed, 1, Len(placed) - 1), x, eng),
                     placed[Len(placed)])
         ELSE Append(placed, x)

\* No sort: the loop runs over the argument as given.
SortTransactions_Unsorted(list, eng) == list

RECURSIVE SortTransactions(_, _)
SortTransactions(list, eng) ==
    IF list = <<>> THEN <<>>
    ELSE Insert(SortTransactions(SubSeq(list, 1, Len(list) - 1), eng),
                list[Len(list)], eng)

(***************************************************************************)
(* The body of the for loop: the switch on txn.type, one operator per case.*)
(***************************************************************************)
\* FetchCase in which Waiting does not take back a completed fetch.
FetchCase_KeepsCompleted(st, txn) ==
    IF txn.status = "SUCCESS" THEN [st EXCEPT !.fetchPMS = "completed"]
    ELSE IF txn.status = "Waiting" /\ st.fetchPMS # "completed"
    THEN [st EXCEPT !.fetchPMS = "in_progress"]
    ELSE st

\* FetchCase in which a waiting fetch restarts the pipeline.
FetchCase_RestartsPipeline(st, txn) ==
    IF txn.status = "SUCCESS" THEN [st EXCEPT !.fetchPMS = "completed"]
    ELSE IF txn.status = "Waiting"
    THEN [s \in DOMAIN st |-> IF s = "fetchPMS" THEN "in_progress" ELSE "pending"]
    ELSE st

\* case 'FETCH'
FetchCase(st, txn) ==
    IF txn.status = "SUCCESS" THEN [st EXCEPT !.fetchPMS = "completed"]
    ELSE IF txn.status = "Waiting" THEN [st EXCEPT !.fetchPMS = "in_progress"]
    ELSE st

\* ApiCase with the two status tests exchanged.
ApiCase_TestsExchanged(st, txn) ==
    IF txn.status = "SUCCESS" \/ txn.status = "PARTIAL"
    THEN [st EXCEPT !.fetchPMS = "completed",
                    !.apiVerification = "in_progress"]
    ELSE IF txn.status = "Waiting"
    THEN [st EXCEPT !.fetchPMS = "completed",
                    !.apiVerification = "completed"]
    ELSE st

\* ApiCase without the writes to fetchPMS.
ApiCase_OwnStageOnly(st, txn) ==
    IF txn.status = "Waiting"
    THEN [st EXCEPT !.apiVerification = "in_progress"]
    ELSE IF txn.status = "SUCCESS" \/ txn.status = "PARTIAL"
    THEN [st EXCEPT !.apiVerification = "completed"]
    ELSE st

\* case 'API'
ApiCase(st, txn) ==
    IF txn.status = "Waiting"
    THEN [st EXCEPT !.fetchPMS = "completed",
                    !.apiVerification = "in_progress"]
    ELSE IF txn.status = "SUCCESS" \/ txn.status = "PARTIAL"
    THEN [st EXCEPT !.fetchPMS = "completed",
                    !.apiVerification = "completed"]
    ELSE st

\* case 'FAX': case 'CALL'
CallCase(st, txn) ==
    IF txn.status = "Waiting"
    THEN [st EXCEPT !.fetchPMS = "completed",
                    !.apiVerification = "completed",
                    !.aiAnalysisAndCall = "in_progress"]
    ELSE IF txn.status = "SUCCESS" \/ txn.status = "PARTIAL"
    THEN [st EXCEPT !.fetchPMS = "completed",
                    !.apiVerification = "completed",
                    !.aiAnalysisAndCall = "completed"]
    ELSE st

\* SaveCase that writes its own stage only.
SaveCase_OwnStageOnly(st, txn) ==
    IF txn.status = "Waiting" THEN [st EXCEPT !.saveToPMS = "in_progress"]
    ELSE IF txn.status = "SUCCESS" THEN [st EXCEPT !.saveToPMS = "completed"]
    ELSE st

\* SaveCase whose Waiting branch also accepts PARTIAL.
SaveCase_PartialWaits(st, txn) ==
    IF txn.status = "Waiting" \/ txn.status = "PARTIAL"
    THEN [st EXCEPT !.fetchPMS = "completed",
                    !.apiVerification = "completed",
                    !.aiAnalysisAndCall = "completed",
                    !.saveToPMS = "in_progress"]
    ELSE IF txn.status = "SUCCESS"
    THEN [st EXCEPT !.fetchPMS = "completed",
                    !.apiVerification = "completed",
                    !.aiAnalysisAndCall = "completed",
                    !.saveToPMS = "completed"]
    ELSE st

\* case 'SAVE'
SaveCase(st, txn) ==
    IF txn.status = "Waiting"
    THEN [st EXCEPT !.fetchPMS = "completed",
                    !.apiVerification = "completed",
                    !.aiAnalysisAndCall = "completed",
                    !.saveToPMS = "in_progress"]
    ELSE IF txn.status = "SUCCESS"
    THEN [st EXCEPT !.fetchPMS = "completed",
                    !.apiVerification = "completed",
                    !.aiAnalysisAndCall = "completed",
                    !.saveToPMS = "completed"]
    ELSE st

\* The switch without the case 'FAX' label.
ApplyTransaction_NoFaxLabel(st, txn) ==
    CASE txn.type = "FETCH" -> FetchCase(st, txn)
      [] txn.type = "API" -> ApiCase(st, txn)
      [] txn.type = "CALL" -> CallCase(st, txn)
      [] txn.type = "SAVE" -> SaveCase(st, txn)
      [] OTHER -> st

\* The switch with a default label on the FETCH case.
ApplyTransaction_DefaultIsFetch(st, txn) ==
    CASE txn.type = "API" -> ApiCase(st, txn)
      [] txn.type = "FAX" \/ txn.type = "CALL" -> CallCase(st, txn)
      [] txn.type = "SAVE" -> SaveCase(st, txn)
      [] OTHER -> FetchCase(st, txn)

\* switch (txn.type): no default branch, any other type leaves status alone.
ApplyTransaction(st, txn) ==
    CASE txn.type = "FETCH" -> FetchCase(st, txn)
      [] txn.type = "API" -> ApiCase(st, txn)
      [] txn.type = "FAX" \/ txn.type = "CALL" -> CallCase(st, txn)
      [] txn.type = "SAVE" -> SaveCase(st, txn)
      [] OTHER -> st

\* The whole loop over a sorted list.
RECURSIVE FoldTransactions(_, _)
FoldTransactions(st, list) ==
    IF list = <<>> THEN st
    ELSE FoldTransactions(ApplyTransaction(st, list[1]), SubSeq(list, 2, Len(list)))

\* deriveVerificationStatusFromTransactions as a function of its argument
\* (and of the engine that runs it).
DeriveStatus(list, eng) ==
    FoldTransactions(InitialStatus, SortTransactions(list, eng))

\* The results [...list].sort(...) can have, over the engines.
SortOutcomes(list) == {SortTransactions(list, eng) : eng \in Engines}

(***************************************************************************)
(* State: one call of the Deriver on a patient's transaction list.         *)
(***************************************************************************)
VARIABLES
    pc,                  \* "idle" | "sort" | "loop" | "done"
    transactions,        \* the argument of the call
    sortedTransactions,  \* the sorted copy
    idx,                 \* position of the for loop in sortedTransactions
    status               \* the status object being built / returned

deriverVars == <<pc, transactions, sortedTransactions, idx, status>>

(***************************************************************************)
(* State of the patient list (PatientGuide), for one patient of the list.  *)
(***************************************************************************)
VARIABLES
    guidePc,                       \* "idle" | "loaded" | "derived" | "filtered"
    dataSource,                    \* currentUser?.dataSource is set (Data Mode)
    patientTransactions,           \* the fetched transactions of the patient
    patientVerificationStatus,     \* patient.verificationStatus
    patientVerificationStatusMap,  \* the map's entry for patient.id
    selectedStatuses,              \* the status filters ticked
    matched                        \* the patient passes the status filter

guideVars == <<guidePc, dataSource, patientTransactions,
               patientVerificationStatus, patientVerificationStatusMap,
               selectedStatuses, matched>>

\* The JavaScript value undefined (an absent field, an absent map entry).
Undefined == [t |-> "undefined"]

\* The patient list before its first render.
GuideIdle ==
    /\ guidePc = "idle"
    /\ dataSource = FALSE
    /\ patientTransactions = <<>>
    /\ patientVerificationStatus = Undefined
    /\ patientVerificationStatusMap = Undefined
    /\ selectedStatuses = {}
    /\ matched = FALSE

(***************************************************************************)
(* State of the transaction store and of the runs of                       *)
(* saveTransactionHistory that complete against it.                        *)
(***************************************************************************)
MaxRows == 2
MaxRuns == 2

Runs == 1..MaxRuns

\* waitingTransaction = null
NoTransaction == 0

VARIABLES
    db,                  \* the rows of the transactions table, by id
    runPc,               \* per run: "idle" | "lookup" | "write" | "done"
    runPatient,          \* per run: patient.id
    waitingTransaction,  \* per run: id of the row found, or NoTransaction
    lastRequest          \* per run: the write request sent, "PUT" | "POST"

saveVars == <<db, runPc, runPatient, waitingTransaction, lastRequest>>

\* No run of saveTransactionHistory has started.
RunsIdle ==
    /\ runPc = [r \in Runs |-> "idle"]
    /\ runPatient = [r \in Runs |-> "none"]
    /\ waitingTransaction = [r \in Runs |-> NoTransaction]
    /\ lastRequest = [r \in Runs |-> "none"]

SaveIdle ==
    /\ db = <<>>
    /\ RunsIdle

(***************************************************************************)
(* State of the Normalizer (parseStediResponse) and of its callers: the    *)
(* objects holding row lists, and what each call returned.                 *)
(***************************************************************************)
\* The reference of the module-level array API_VERIFICATION_DATA.
TemplateRef == 0

VARIABLES
    heap,        \* the row lists written since the module loaded, by reference
    returned,    \* per finished call: its argument and what it returned
    edits        \* the number of changes callers made to returned rows

normVars == <<heap, returned, edits>>

(***************************************************************************)
(* State of one SSNInput and of the form that holds its value.             *)
(***************************************************************************)
VARIABLES
    ssnValue,    \* the value prop: formData.ssn of the parent
    isVisible,   \* useState(false): the toggle shows the value
    isFocused,   \* useState(false): the input has the focus
    showToggle,  \* the showToggle prop
    lastChange   \* the last call of handleChange: <<newRawValue,
                 \* formattedValue>>, or <<>> before the first

ssnVars == <<ssnValue, isVisible, isFocused, showToggle, lastChange>>

\* The input as CreatePatientModal first renders it.
SSNIdle ==
    /\ ssnValue = ""
    /\ isVisible = FALSE
    /\ isFocused = FALSE
    /\ showToggle = FALSE
    /\ lastChange = <<>>

(***************************************************************************)
(* State of the verification modal (CoverageVerificationResults): its      *)
(* props, its state hooks, the calls of startVerification in flight, the   *)
(* timeouts pending and the save requests sent.                            *)
(***************************************************************************)
\* the number of times the modal is opened
MaxOpens == 2

VARIABLES
    session,        \* what the renders close over: stediMode, patient,
                    \* isRealDataMode, bodyNamesBound
    isOpen,         \* the isOpen prop
    opens,          \* how many times the parent opened the modal
    currentStep,    \* 'idle' | 'step1' | 'step2' | 'step3'
    step1Status,    \* 'pending' | 'in_progress' | 'completed'
    step2Status,
    step3Status,
    verifications,  \* the calls of startVerification scheduled, in order
    resetTimeouts,  \* the number of setTimeout(resetModal, 300) pending
    sentRequests,   \* the save requests sent
    lastClick       \* the button of the modal clicked last

modalVars == <<session, isOpen, opens, currentStep, step1Status, step2Status,
               step3Status, verifications, resetTimeouts, sentRequests,
               lastClick>>

\* The modal mounted closed, in mockup mode, without a patient.
ModalIdle ==
    /\ session = [stediMode |-> "mockup", patient |-> "none",
                  isRealDataMode |-> FALSE, bodyNamesBound |-> FALSE]
    /\ isOpen = FALSE
    /\ opens = 0
    /\ currentStep = "idle"
    /\ step1Status = "pending"
    /\ step2Status = "pending"
    /\ step3Status = "pending"
    /\ verifications = <<>>
    /\ resetTimeouts = 0
    /\ sentRequests = {}
    /\ lastClick = "none"

\* The variables a call of the Deriver leaves alone.
otherVars == <<guideVars, saveVars, normVars, ssnVars, modalVars>>

\* The variables the patient list leaves alone.
guideOtherVars == <<deriverVars, saveVars, normVars, ssnVars, modalVars>>

\* The variables a run of saveTransactionHistory leaves alone.
saveOtherVars == <<deriverVars, guideVars, normVars, ssnVars, modalVars>>

\* The variables the Normalizer and its callers leave alone.
normOtherVars == <<deriverVars, guideVars, saveVars, ssnVars, modalVars>>

\* The variables the SSN input leaves alone.
ssnOtherVars == <<deriverVars, guideVars, saveVars, normVars, modalVars>>

\* The variables the verification modal leaves alone.
modalOtherVars == <<deriverVars, guideVars, saveVars, normVars, ssnVars>>

\* JavaScript values: a string, a number, null, an array, an object (a record
\* of its own fields); Undefined is the value of what is absent.
Str(s) == [t |-> "string", v |-> s]
Num(n) == [t |-> "number", v |-> n]
Null == [t |-> "null"]
Arr(seq) == [t |-> "array", v |-> seq]
Obj(rec) == [t |-> "object", v |-> rec]

\* A row of the catalog, with the fields the Normalizer and the claims read;
\* aiCallValue holds a JavaScript value, since updateRow stores what it is
\* given.
Row(saiCode, preStepValue, missing, aiCallValue, verifiedBy) ==
    [saiCode |-> saiCode, preStepValue |-> preStepValue, missing |-> missing,
     aiCallValue |-> Str(aiCallValue), verifiedBy |-> verifiedBy]

API_VERIFICATION_DATA ==
    <<
       Row("VF000001", "Blue Cross Dental Plus", "N", "Blue Cross Dental Plus", "API"),
       Row("VF000002", "GRP987654", "N", "GRP987654", "API"),
       Row("VF000003", "01/01/2024", "N", "01/01/2024", "API"),
       Row("VF000004", "Blue Cross Blue Shield", "N", "Blue Cross Blue Shield", "API"),
       Row("VF000005", "SUB123456789", "N", "SUB123456789", "API"),
       Row("VF000051", "0", "N", "$0 - No Deductible", "API"),
       Row("VF000052", "Basic & Major", "N", "Basic & Major", "API"),
       Row("VF000053", "$0", "N", "$0", "API"),
       Row("VF000010", "2 Cleanings", "N", "2 Cleanings per Year", "API"),
       Row("VF000011", "2 Exams", "N", "2 Exams per Year", "API"),
       Row("VF000012", "1 FMS per 5 years", "N", "1 Full Mouth Series per 5 years", "API"),
       Row("VF000020", "80%", "N", "80%", "API"),
       Row("VF000021", "80%", "N", "80%", "API"),
       Row("VF000022", "80%", "N", "80%", "API"),
       Row("VF000030", "50%", "N", "50%", "API"),
       Row("VF000031", "50%", "N", "50%", "API"),
       Row("VF000032", "50%", "N", "50%", "API"),
       Row("VF000033", "50%", "N", "50%", "API"),
       Row("VF000034", "Not Covered", "N", "Not Covered - Considered Cosmetic", "API"),
       Row("VF000060", "$1200", "N", "$1,200 per Year", "API"),
       Row("VF000061", "Not Included", "N", "Not Included", "API"),
       Row("VF000028", "", "Y", "", "-"),
       Row("VF000029", "", "Y", "", "-"),
       Row("VF000040", "", "Y", "", "-"),
       Row("VF000041", "", "Y", "", "-"),
       Row("VF000042", "", "Y", "", "-"),
       Row("VF000045", "", "Y", "", "-"),
       Row("VF000046", "", "Y", "", "-"),
       Row("VF000070", "", "Y", "", "-")
    >>

\* Before any call: no array was allocated and the static catalog holds
\* what its literal says.
NormIdle ==
    /\ heap = <<>>
    /\ returned = <<>>
    /\ edits = 0

OthersIdle ==
    /\ GuideIdle
    /\ SaveIdle
    /\ NormIdle
    /\ SSNIdle
    /\ ModalIdle

vars == <<deriverVars, otherVars>>

DeriverIdle ==
    /\ pc = "idle"
    /\ transactions = <<>>
    /\ sortedTransactions = <<>>
    /\ idx = 1
    /\ status = InitialStatus

Init ==
    /\ DeriverIdle
    /\ OthersIdle

\* The caller invokes the Deriver on a list; status starts all pending.
Call ==
    /\ pc = "idle"
    /\ \E n \in 0..MaxLen : \E f \in [1..n -> TxnBodies] :
          transactions' = MakeList(f)
    /\ pc' = "sort"
    /\ sortedTransactions' = <<>>
    /\ idx' = 1
    /\ status' = InitialStatus
    /\ UNCHANGED otherVars

\* const sortedTransactions = [...transactions].sort(...)
Sort ==
    /\ pc = "sort"
    /\ pc' = "loop"
    /\ sortedTransactions' \in SortOutcomes(transactions)
    /\ UNCHANGED <<transactions, idx, status>>
    /\ UNCHANGED otherVars

\* One iteration of the for loop.
Step ==
    /\ pc = "loop"
    /\ idx <= Len(sortedTransactions)
    /\ status' = ApplyTransaction(status, sortedTransactions[idx])
    /\ idx' = idx + 1
    /\ UNCHANGED <<pc, transactions, sortedTransactions>>
    /\ UNCHANGED otherVars

\* return status
Return ==
    /\ pc = "loop"
    /\ idx > Len(sortedTransactions)
    /\ pc' = "done"
    /\ UNCHANGED <<transactions, sortedTransactions, idx, status>>
    /\ UNCHANGED otherVars

Next ==
    \/ Call
    \/ Sort
    \/ Step
    \/ Return

Spec == Init /\ [][Next]_vars

TypeOK ==
    /\ pc \in {"idle", "sort", "loop", "done"}
    /\ Len(transactions) <= MaxLen
    /\ \A k \in 1..Len(transactions) : transactions[k].id = k
    /\ idx \in 1..(MaxLen + 1)
    /\ status \in [Stages -> StageValues]

(***************************************************************************)
(* The transition table of the Deriver as the specification states it:     *)
(* (transaction type, transaction status) -> partial stage update.         *)
(***************************************************************************)
NoUpdate == [s \in {} |-> "pending"]

TransitionTable(type, st) ==
    CASE type = "FETCH" /\ st = "SUCCESS" -> ("fetchPMS" :> "completed")
      [] type = "FETCH" /\ st = "Waiting" -> ("fetchPMS" :> "in_progress")
      [] type = "API" /\ st = "Waiting" ->
           ("fetchPMS" :> "completed") @@ ("apiVerification" :> "in_progress")
      [] type = "API" /\ st \in {"SUCCESS", "PARTIAL"} ->
           ("fetchPMS" :> "completed") @@ ("apiVerification" :> "completed")
      [] type \in {"CALL", "FAX"} /\ st = "Waiting" ->
           ("fetchPMS" :> "completed") @@ ("apiVerification" :> "completed")
             @@ ("aiAnalysisAndCall" :> "in_progress")
      [] type \in {"CALL", "FAX"} /\ st \in {"SUCCESS", "PARTIAL"} ->
           ("fetchPMS" :> "completed") @@ ("apiVerification" :> "completed")
             @@ ("aiAnalysisAndCall" :> "completed")
      [] type = "SAVE" /\ st = "Waiting" ->
           ("fetchPMS" :> "completed") @@ ("apiVerification" :> "completed")
             @@ ("aiAnalysisAndCall" :> "completed") @@ ("saveToPMS" :> "in_progress")
      [] type = "SAVE" /\ st = "SUCCESS" ->
           ("fetchPMS" :> "completed") @@ ("apiVerification" :> "completed")
             @@ ("aiAnalysisAndCall" :> "completed") @@ ("saveToPMS" :> "completed")
      [] OTHER -> NoUpdate

\* The stages the rule of a transaction writes.
Touched(txn) == DOMAIN TransitionTable(txn.type, txn.status)

SetMax(S) == CHOOSE m \in S : \A k \in S : k <= m

\* Last write wins: the value of a stage after the transactions of list were
\* applied in list order.
LastWrite(stage, list) ==
    LET writers == {k \in 1..Len(list) : stage \in Touched(list[k])}
    IN  IF writers = {} THEN "pending"
        ELSE LET t == list[SetMax(writers)]
             IN  TransitionTable(t.type, t.status)[stage]

HasStartTime(txn) == txn.startTime # NoStartTime

\* list holds exactly the transactions of the argument
SameTransactions(list) ==
    /\ Len(list) = Len(transactions)
    /\ {list[k] : k \in 1..Len(list)} = {transactions[k] : k \in 1..Len(transactions)}

\* the timestamped transactions of list are in ascending startTime order
AscendingStartTime(list) ==
    \A i, j \in 1..Len(list) :
        (i < j /\ HasStartTime(list[i]) /\ HasStartTime(list[j]))
            => list[i].startTime <= list[j].startTime

Folded == pc \in {"loop", "done"}

\* C1: the returned vector is the one obtained from all stages pending by
\* applying the transition table to the transactions in ascending startTime
\* order, the last write to a stage winning.
C1_TransitionTable ==
    pc = "done" =>
        /\ SameTransactions(sortedTransactions)
        /\ AscendingStartTime(sortedTransactions)
        /\ status = [s \in Stages |-> LastWrite(s, sortedTransactions)]

\* C1 witness: a finished derivation in which a later transaction overwrote
\* the stage an earlier one had written.
C1_Witness ==
    /\ pc = "done"
    /\ Len(sortedTransactions) = 2
    /\ sortedTransactions[1].startTime = 1
    /\ sortedTransactions[2].startTime = 2
    /\ sortedTransactions[1].id = 2
    /\ sortedTransactions[1].type = "SAVE" /\ sortedTransactions[1].status = "Waiting"
    /\ sortedTransactions[2].type = "FETCH" /\ sortedTransactions[2].status = "Waiting"
    /\ status.fetchPMS = "in_progress"
    /\ status.saveToPMS = "in_progress"

\* C2: in the derived vector, after every prefix of the sorted list, no stage
\* is completed while a stage before it in the pipeline order is pending.
C2_StageOrdering ==
    Folded =>
        \A i, j \in 1..Len(StageOrder) :
            i < j => ~(/\ status[StageOrder[j]] = "completed"
                       /\ status[StageOrder[i]] = "pending")

\* C2 witness: a prefix after which a stage is completed and a later one is
\* still pending, the log holding no record of the earlier stages.
C2_Witness ==
    /\ pc = "loop"
    /\ idx = 2
    /\ sortedTransactions[1].type = "CALL"
    /\ status.aiAnalysisAndCall = "completed"
    /\ status.fetchPMS = "completed"
    /\ status.saveToPMS = "pending"

\* C3: whatever the input order, a transaction without startTime is folded
\* after every transaction that has one, so for a stage that a transaction
\* without startTime writes, the final value is one written by such a
\* transaction.
C3_MissingStartTimeLast ==
    Folded =>
        /\ \A i, j \in 1..Len(sortedTransactions) :
               (/\ ~HasStartTime(sortedTransactions[i])
                /\ HasStartTime(sortedTransactions[j])) => j < i
        /\ pc = "done" =>
             \A s \in Stages :
                 (\E k \in 1..Len(transactions) :
                      ~HasStartTime(transactions[k]) /\ s \in Touched(transactions[k]))
                 => \E k \in 1..Len(transactions) :
                        /\ ~HasStartTime(transactions[k])
                        /\ s \in Touched(transactions[k])
                        /\ status[s] = TransitionTable(transactions[k].type,
                                                       transactions[k].status)[s]

\* C3 witness: the transaction without startTime came first in the input and
\* its write still was the last.
C3_Witness ==
    /\ pc = "done"
    /\ Len(transactions) = 2
    /\ ~HasStartTime(transactions[1])
    /\ HasStartTime(transactions[2])
    /\ transactions[1].type = "FETCH" /\ transactions[1].status = "Waiting"
    /\ transactions[2].type = "FETCH" /\ transactions[2].status = "SUCCESS"
    /\ status.fetchPMS = "in_progress"

AllCompleted == \A s \in Stages : status[s] = "completed"

IsSaveSuccess(txn) == txn.type = "SAVE" /\ txn.status = "SUCCESS"

\* u comes before t in startTime order: u has a startTime, and t has none,
\* or a later one, or the same one and a later place in the input.
PrecedesInStartTimeOrder(u, t) ==
    /\ HasStartTime(u)
    /\ \/ ~HasStartTime(t)
       \/ u.startTime < t.startTime
       \/ u.startTime = t.startTime /\ u.id < t.id

\* C4: when the last transaction in startTime order is SAVE with status
\* SUCCESS, all four stages of the derived vector are completed, whatever
\* the list holds (or lacks) before it.
C4_SaveSuccessCompletesAll ==
    pc = "done" =>
        /\ (/\ sortedTransactions # <<>>
            /\ IsSaveSuccess(sortedTransactions[Len(sortedTransactions)]))
               => AllCompleted
        /\ \A k \in 1..Len(transactions) :
               (/\ IsSaveSuccess(transactions[k])
                /\ \A j \in 1..Len(transactions) :
                       j # k => PrecedesInStartTimeOrder(transactions[j], transactions[k]))
               => AllCompleted

\* C4 witness: the log holds the SAVE/SUCCESS transaction and nothing else.
C4_Witness ==
    /\ pc = "done"
    /\ Len(transactions) = 1
    /\ IsSaveSuccess(transactions[1])
    /\ AllCompleted

IsScenarioA ==
    /\ Len(transactions) = 1
    /\ transactions[1].type = "FETCH" /\ transactions[1].status = "SUCCESS"

IsScenarioB ==
    /\ Len(transactions) = 2
    /\ \E f, a \in 1..2 :
        /\ transactions[f].type = "FETCH" /\ transactions[f].status = "SUCCESS"
        /\ transactions[a].type = "API" /\ transactions[a].status = "Waiting"
        /\ HasStartTime(transactions[f])
        /\ transactions[f].startTime < transactions[a].startTime

\* C5: one FETCH/SUCCESS transaction alone derives fetchPMS completed and the
\* other three stages pending; with an API/Waiting transaction of a later
\* startTime added, fetchPMS is completed, apiVerification in_progress and
\* the last two stages pending.
C5_ScenariosAB ==
    pc = "done" =>
        /\ IsScenarioA =>
             status = [fetchPMS |-> "completed", apiVerification |-> "pending",
                       aiAnalysisAndCall |-> "pending", saveToPMS |-> "pending"]
        /\ IsScenarioB =>
             status = [fetchPMS |-> "completed", apiVerification |-> "in_progress",
                       aiAnalysisAndCall |-> "pending", saveToPMS |-> "pending"]

\* C5 witness: scenario B derived, the API transaction first in the input.
C5_Witness ==
    /\ pc = "done"
    /\ IsScenarioB
    /\ transactions[1].type = "API"
    /\ status.apiVerification = "in_progress"

\* The engines whose sort of the argument is the sorted list of this call.
EnginesOfThisCall ==
    {eng \in Engines : SortTransactions(transactions, eng) = sortedTransactions}

\* list with the type of its k-th transaction changed CALL <-> FAX
SwapCallFax(list, k) ==
    [list EXCEPT ![k].type = IF @ = "CALL" THEN "FAX" ELSE "CALL"]

\* C6: changing the type of any one transaction of the list from CALL to FAX
\* or from FAX to CALL leaves the derived vector unchanged.
C6_CallFaxInterchangeable ==
    pc = "done" =>
        \A k \in 1..Len(transactions) :
            transactions[k].type \in {"CALL", "FAX"} =>
                \A eng \in EnginesOfThisCall :
                    DeriveStatus(SwapCallFax(transactions, k), eng) = status

\* C6 witness: a FAX transaction drove the call stage.
C6_Witness ==
    /\ pc = "done"
    /\ \E k \in 1..Len(transactions) :
           transactions[k].type = "FAX" /\ transactions[k].status = "Waiting"
    /\ status.aiAnalysisAndCall = "in_progress"
    /\ status.apiVerification = "completed"

KnownTypes == {"FETCH", "API", "CALL", "FAX", "SAVE"}

\* list without its transactions of unknown type
RECURSIVE WithoutUnknownTypes(_)
WithoutUnknownTypes(list) ==
    IF list = <<>> THEN <<>>
    ELSE LET rest == WithoutUnknownTypes(SubSeq(list, 1, Len(list) - 1))
             last == list[Len(list)]
         IN  IF last.type \in KnownTypes
             THEN Append(rest, [last EXCEPT !.id = Len(rest) + 1])
             ELSE rest

\* C7: the Deriver is total: on every list (empty, with unknown types, with
\* FAILED statuses, with missing startTimes) the loop stays inside the sorted
\* list, the call returns after folding every transaction, and the vector is
\* well formed; the empty list yields all stages pending;
\* a transaction of unknown type changes no stage (the vector is the one
\* derived from the list without it).
C7_Total ==
    /\ status \in [Stages -> StageValues]
    /\ pc = "loop" => idx \in 1..(Len(sortedTransactions) + 1)
    /\ Folded => Len(sortedTransactions) = Len(transactions)
    /\ pc = "done" =>
         /\ idx = Len(transactions) + 1
         /\ transactions = <<>> => status = InitialStatus
         /\ \A eng \in EnginesOfThisCall :
                DeriveStatus(WithoutUnknownTypes(transactions), eng) = status

\* C7 witness: a call returned on a list with a transaction of unknown type
\* without startTime and a FAILED transaction.
C7_Witness ==
    /\ pc = "done"
    /\ Len(transactions) = 2
    /\ transactions[1].type = "OTHER" /\ ~HasStartTime(transactions[1])
    /\ transactions[1].status = "Waiting"
    /\ transactions[2].type = "SAVE" /\ transactions[2].status = "FAILED"
    /\ status = InitialStatus

\* list in reverse order (the id of a transaction is its place in the list)
Reversed(list) ==
    [k \in 1..Len(list) |-> [list[Len(list) + 1 - k] EXCEPT !.id = k]]

\* the two transactions write different values to a stage both touch
ConflictingWrites(t, u) ==
    \E s \in Touched(t) \cap Touched(u) :
        TransitionTable(t.type, t.status)[s] # TransitionTable(u.type, u.status)[s]

\* C9: the Deriver is order-sensitive: for a list of two transactions with
\* the same (or no) startTime whose rules write different values to a common
\* stage, the list and its shuffle (the two exchanged) derive different vectors.
C9_OrderSensitive ==
    (/\ pc = "done"
     /\ Len(transactions) = 2
     /\ transactions[1].startTime = transactions[2].startTime
     /\ ConflictingWrites(transactions[1], transactions[2]))
        => \A eng \in EnginesOfThisCall :
               DeriveStatus(Reversed(transactions), eng) # status

\* C9 witness: a derived vector that the shuffled list does not derive.
C9_Witness ==
    /\ pc = "done"
    /\ Len(transactions) = 2
    /\ HasStartTime(transactions[1])
    /\ \E eng \in EnginesOfThisCall :
           DeriveStatus(Reversed(transactions), eng) # status

\* C10: folding in the next transaction of the sorted list leaves every stage
\* its rule does not touch at its value (so no such stage falls back from
\* completed).
C10_UntouchedStagesKept ==
    [][(pc = "loop" /\ idx <= Len(sortedTransactions)) =>
          \A s \in Stages \ Touched(sortedTransactions[idx]) : status'[s] = status[s]]_vars

\* C10 witness: a transaction was folded in that did not touch a stage an
\* earlier one had completed.
C10_Witness ==
    /\ pc = "loop"
    /\ idx = 3
    /\ "saveToPMS" \notin Touched(sortedTransactions[2])
    /\ Touched(sortedTransactions[2]) # {}
    /\ status.saveToPMS = "completed"
    /\ status.fetchPMS = "in_progress"

(***************************************************************************)
(* PatientGuide: the patient list derives each patient's status from the   *)
(* transactions (Data Mode) and filters the list by status.                *)
(***************************************************************************)
\* The stage fields the status filter destructures from a status object.
FilterStages ==
    {"fetchPMS", "documentAnalysis", "apiVerification", "callCenter",
     "saveToPMS"}

FilterOptions == {"not_started", "completed", "in_progress"}

\* patient.verificationStatus as stored with the patient: absent, or a
\* vector over the five stages of the patient schema.
StoredStatuses ==
    {Undefined,
     [s \in FilterStages |-> "pending"],
     [s \in FilterStages |->
         IF s = "fetchPMS" THEN "completed"
         ELSE IF s = "documentAnalysis" THEN "in_progress" ELSE "pending"],
     [s \in FilterStages |-> "completed"]}

\* obj.field: the field's value, or undefined when the object has no such
\* field.
Read(obj, field) ==
    IF field \in DOMAIN obj THEN obj[field] ELSE "undefined"

\* useMemo patientVerificationStatusMap, read at patient.id: an entry exists
\* only in Data Mode and for a patient with at least one transaction.
StatusMapEntries(hasDataSource, list) ==
    IF hasDataSource /\ Len(list) > 0
    THEN {DeriveStatus(list, eng) : eng \in Engines}
    ELSE {Undefined}

\* getEffectiveVerificationStatus(patient)
GetEffectiveVerificationStatus(hasDataSource, entry, stored) ==
    IF hasDataSource /\ entry # Undefined THEN entry ELSE stored

\* fetchPMS === 'pending' && documentAnalysis === 'pending' && ...
IsNotStarted(st) ==
    \A s \in FilterStages : Read(st, s) = "pending"

\* The body of selectedStatuses.some(...) for one selected status.
MatchesStatus(st, selectedStatus) ==
    CASE selectedStatus = "not_started" ->
            IF st = Undefined THEN TRUE ELSE IsNotStarted(st)
      [] selectedStatus = "completed" ->
            IF st = Undefined THEN FALSE
            ELSE Read(st, "saveToPMS") = "completed"
      [] selectedStatus = "in_progress" ->
            IF st = Undefined THEN FALSE
            ELSE ~IsNotStarted(st) /\ ~(Read(st, "saveToPMS") = "completed")
      [] OTHER -> FALSE

\* The patient list is rendered for a user and a patient.
LoadPatient ==
    /\ guidePc = "idle"
    /\ \E n \in 0..MaxLen : \E f \in [1..n -> TxnBodies] :
          patientTransactions' = MakeList(f)
    /\ dataSource' \in BOOLEAN
    /\ patientVerificationStatus' \in StoredStatuses
    /\ guidePc' = "loaded"
    /\ UNCHANGED <<patientVerificationStatusMap, selectedStatuses, matched>>
    /\ UNCHANGED guideOtherVars

\* The memo recomputes the status map from the transactions.
DeriveStatusMap ==
    /\ guidePc = "loaded"
    /\ patientVerificationStatusMap'
          \in StatusMapEntries(dataSource, patientTransactions)
    /\ guidePc' = "derived"
    /\ UNCHANGED <<dataSource, patientTransactions, patientVerificationStatus,
                   selectedStatuses, matched>>
    /\ UNCHANGED guideOtherVars

\* The status filter runs on the patient with the filters ticked.
FilterByStatus ==
    /\ guidePc = "derived"
    /\ \E sel \in (SUBSET FilterOptions) \ {{}} :
          /\ selectedStatuses' = sel
          /\ matched' =
                \E selectedStatus \in sel :
                    MatchesStatus(
                        GetEffectiveVerificationStatus(
                            dataSource, patientVerificationStatusMap,
                            patientVerificationStatus),
                        selectedStatus)
    /\ guidePc' = "filtered"
    /\ UNCHANGED <<dataSource, patientTransactions, patientVerificationStatus,
                   patientVerificationStatusMap>>
    /\ UNCHANGED guideOtherVars

GuideNext ==
    \/ LoadPatient
    \/ DeriveStatusMap
    \/ FilterByStatus

SpecGuide == Init /\ [][GuideNext]_vars

\* The status the filter ran on came from the Deriver.
FilteredOnDerived ==
    /\ guidePc = "filtered"
    /\ dataSource
    /\ patientVerificationStatusMap # Undefined

\* C11: the vector derived for the patient list carries each of the five
\* stages the status filter reads, with a value among pending, in_progress
\* and completed; and a patient whose transactions derive no progress (every
\* stage of the derived vector pending) is kept by the filter 'not_started'
\* and dropped by the filter 'in_progress'.
C11_FiveStageConsumer ==
    FilteredOnDerived =>
        /\ \A s \in FilterStages :
              Read(patientVerificationStatusMap, s) \in StageValues
        /\ (\A s \in DOMAIN patientVerificationStatusMap :
                patientVerificationStatusMap[s] = "pending") =>
              /\ selectedStatuses = {"not_started"} => matched
              /\ selectedStatuses = {"in_progress"} => ~matched

(***************************************************************************)
(* saveTransactionHistory: on completion of a verification run, look up    *)
(* the patient's Waiting API transaction and write the completed one.      *)
(* The server of /api/transactions stores what it accepts: PUT replaces    *)
(* the row of the given id, POST appends a row.                            *)
(***************************************************************************)
Patients == {"p1", "p2"}

\* The rows other stages and earlier runs have left in the table.
StoredRows ==
    [patientId : Patients, type : {"API", "FETCH"},
     status : {"Waiting", "SUCCESS"}]

\* transactionData of a run for patient p.
TransactionData(p) == [patientId |-> p, type |-> "API", status |-> "SUCCESS"]

\* patientTransactions.find(t => t.type === 'API' && t.status === 'Waiting')
\* over data.transactions.filter(t => t.patientId === patient.id): the first
\* such row, by id.
WaitingIds(rows, p) ==
    {i \in 1..Len(rows) :
        /\ rows[i].patientId = p
        /\ rows[i].type = "API"
        /\ rows[i].status = "Waiting"}

FindWaiting(rows, p) ==
    IF WaitingIds(rows, p) = {} THEN NoTransaction
    ELSE CHOOSE i \in WaitingIds(rows, p) :
            \A j \in WaitingIds(rows, p) : i <= j

\* The outcomes of an awaited fetch: a response with ok, a response without
\* ok, a rejected promise.
FetchOutcomes == {"ok", "notOk", "rejected"}

SaveInit ==
    /\ DeriverIdle
    /\ GuideIdle
    /\ NormIdle
    /\ SSNIdle
    /\ ModalIdle
    /\ RunsIdle
    /\ \E n \in 0..MaxRows : db \in [1..n -> StoredRows]

\* A run completes and calls saveTransactionHistory; without a patient id,
\* or in mockup mode, the function returns at once.
StartSave(r) ==
    /\ runPc[r] = "idle"
    /\ \E p \in Patients \cup {"none"} : \E isRealDataMode \in BOOLEAN :
          /\ runPatient' = [runPatient EXCEPT ![r] = p]
          /\ runPc' = [runPc EXCEPT ![r] =
                          IF p = "none" \/ ~isRealDataMode THEN "done"
                          ELSE "lookup"]
    /\ UNCHANGED <<db, waitingTransaction, lastRequest>>
    /\ UNCHANGED saveOtherVars

\* await fetch('/api/transactions') and the search of its result; a rejected
\* fetch lands in the catch block, which ends the function.
LookupWaiting(r) ==
    /\ runPc[r] = "lookup"
    /\ \E outcome \in FetchOutcomes :
          /\ waitingTransaction' = [waitingTransaction EXCEPT ![r] =
                IF outcome = "ok" THEN FindWaiting(db, runPatient[r])
                ELSE NoTransaction]
          /\ runPc' = [runPc EXCEPT ![r] =
                IF outcome = "rejected" THEN "done" ELSE "write"]
    /\ UNCHANGED <<db, runPatient, lastRequest>>
    /\ UNCHANGED saveOtherVars

\* PUT /api/transactions/${waitingTransaction.id}
PutTransaction(r) ==
    /\ runPc[r] = "write"
    /\ waitingTransaction[r] # NoTransaction
    /\ \E outcome \in FetchOutcomes :
          db' = IF outcome = "ok"
                THEN [db EXCEPT ![waitingTransaction[r]] =
                         TransactionData(runPatient[r])]
                ELSE db
    /\ lastRequest' = [lastRequest EXCEPT ![r] = "PUT"]
    /\ runPc' = [runPc EXCEPT ![r] = "done"]
    /\ UNCHANGED <<runPatient, waitingTransaction>>
    /\ UNCHANGED saveOtherVars

\* POST /api/transactions
PostTransaction(r) ==
    /\ runPc[r] = "write"
    /\ waitingTransaction[r] = NoTransaction
    /\ \E outcome \in FetchOutcomes :
          db' = IF outcome = "ok"
                THEN Append(db, TransactionData(runPatient[r]))
                ELSE db
    /\ lastRequest' = [lastRequest EXCEPT ![r] = "POST"]
    /\ runPc' = [runPc EXCEPT ![r] = "done"]
    /\ UNCHANGED <<runPatient, waitingTransaction>>
    /\ UNCHANGED saveOtherVars

SaveNext ==
    \E r \in Runs :
        \/ StartSave(r)
        \/ LookupWaiting(r)
        \/ PutTransaction(r)
        \/ PostTransaction(r)

SpecSave == SaveInit /\ [][SaveNext]_vars

\* The number of rows of patient p.
RowsOf(rows, p) ==
    Cardinality({i \in 1..Len(rows) : rows[i].patientId = p})

\* Run r sends its write request in this step.
Writes(r) == runPc[r] = "write" /\ runPc'[r] = "done"

\* C12: in every interleaving of the runs, a run that completes for a
\* patient holding a Waiting API transaction sends PUT on that transaction's
\* id, the patient's number of transactions does not grow and, once the
\* server accepts the PUT, the row is no longer Waiting; POST is sent only
\* when the patient has no Waiting API transaction.
C12_UpdateInPlace ==
    [][\A r \in Runs :
          Writes(r) =>
             LET p == runPatient[r]
                 w == FindWaiting(db, p)
             IN  /\ w # NoTransaction =>
                       /\ lastRequest'[r] = "PUT"
                       /\ RowsOf(db', p) = RowsOf(db, p)
                       /\ db' # db =>
                             db'[waitingTransaction[r]].status # "Waiting"
                 /\ lastRequest'[r] = "POST" => w = NoTransaction]_vars

(***************************************************************************)
(* The Normalizer, parseStediResponse: JavaScript's evaluation rules for   *)
(* the expressions it is written with.                                     *)
(***************************************************************************)
\* The object {}.
EmptyObject == Obj([f \in {} |-> Undefined])

IsNullish(v) == v.t \in {"undefined", "null"}

\* The truthiness of a value, as tested by ||, && and ?:.
Truthy(v) ==
    CASE v.t = "string" -> v.v # ""
      [] v.t = "number" -> v.v # 0
      [] v.t \in {"array", "object"} -> TRUE
      [] OTHER -> FALSE

\* a || b
OrElse(a, b) == IF Truthy(a) THEN a ELSE b

\* v === 'text'
IsString(v, text) == v.t = "string" /\ v.v = text

\* v.field, for a v that is neither null nor undefined: a field of an
\* object; v[0] of a string is its first character; anything else is
\* undefined.
Get(v, field) ==
    IF v.t = "object" /\ field \in DOMAIN v.v THEN v.v[field] ELSE Undefined

\* v?.field
OptGet(v, field) == IF IsNullish(v) THEN Undefined ELSE Get(v, field)

\* v?.[0]
OptFirst(v) ==
    CASE v.t = "array" -> IF Len(v.v) > 0 THEN v.v[1] ELSE Undefined
      [] v.t = "string" ->
            IF Len(v.v) > 0 THEN Str(SubSeq(v.v, 1, 1)) ELSE Undefined
      [] OTHER -> Undefined

\* v.length > 0
HasLength(v) ==
    CASE v.t = "array" -> Len(v.v) > 0
      [] v.t = "string" -> Len(v.v) > 0
      [] OTHER -> FALSE

\* `${v}` for the values a payload holds in a benefit field.
RECURSIVE Text(_)
Text(v) ==
    CASE v.t = "string" -> v.v
      [] v.t = "number" -> ToString(v.v)
      [] v.t = "array" ->
            IF Len(v.v) = 0 THEN ""
            ELSE IF Len(v.v) = 1 THEN
                    (IF IsNullish(v.v[1]) THEN "" ELSE Text(v.v[1]))
            ELSE (IF IsNullish(v.v[1]) THEN "" ELSE Text(v.v[1])) \o ","
                    \o Text(Arr(Tail(v.v)))
      [] v.t = "object" -> "[object Object]"
      [] OTHER -> v.t

UpperCaseLetters == "ABCDEFGHIJKLMNOPQRSTUVWXYZ"
LowerCaseLetters == "abcdefghijklmnopqrstuvwxyz"

\* The lower-case letter of each upper-case letter.
LowerOf ==
    [c \in {SubSeq(UpperCaseLetters, k, k) : k \in 1..26} |->
        LET k == CHOOSE k \in 1..26 : SubSeq(UpperCaseLetters, k, k) = c
        IN  SubSeq(LowerCaseLetters, k, k)]

\* s.toLowerCase()
RECURSIVE ToLowerCase(_)
ToLowerCase(s) ==
    IF s = "" THEN ""
    ELSE LET c == SubSeq(s, 1, 1)
         IN  (IF c \in DOMAIN LowerOf THEN LowerOf[c] ELSE c)
                \o ToLowerCase(SubSeq(s, 2, Len(s)))

\* The names and service types the raw responses below are written with;
\* their lower-case forms are computed once.
KnownTexts ==
    {"Annual Maximum", "Orthodontic Maximum", "ANNUAL MAXIMUM", "Deductible",
     "Calendar Year Deductible", "Dental Care", "Crown",
     "Prophylaxis Cleaning", "Waiting Period - Major", "Exam Frequency"}

LowerCaseOfKnown == [s \in KnownTexts |-> ToLowerCase(s)]

\* s.toLowerCase(), looked up when s is a known text.
LowerCased(s) ==
    IF s \in KnownTexts THEN LowerCaseOfKnown[s] ELSE ToLowerCase(s)

\* s.includes(kw)
Includes(s, kw) ==
    /\ Len(kw) <= Len(s)
    /\ \E i \in 1..(Len(s) - Len(kw) + 1) : SubSeq(s, i, i + Len(kw) - 1) = kw

\* s.padEnd(n): s followed by spaces up to length n.
RECURSIVE PadEnd(_, _)
PadEnd(s, n) == IF Len(s) >= n THEN s ELSE PadEnd(s \o " ", n)

\* s.trim(), for the white space the function can produce: spaces.
RECURSIVE Trim(_)
Trim(s) ==
    IF s = "" THEN ""
    ELSE IF SubSeq(s, 1, 1) = " " THEN Trim(SubSeq(s, 2, Len(s)))
    ELSE IF SubSeq(s, Len(s), Len(s)) = " "
         THEN Trim(SubSeq(s, 1, Len(s) - 1))
    ELSE s

(***************************************************************************)
(* Conditions that may throw evaluate to "T", "F" or "X" (a TypeError).    *)
(***************************************************************************)
\* a || b and a && b, evaluated left to right with short circuit.
Or3(a, b) == IF a = "F" THEN b ELSE a
And3(a, b) == IF a = "T" THEN b ELSE a
Not3(a) == IF a = "T" THEN "F" ELSE IF a = "F" THEN "T" ELSE "X"
Bool3(b) == IF b THEN "T" ELSE "F"

\* The least element of a non-empty set of integers.
SetMin(S) == CHOOSE i \in S : \A j \in S : i <= j

\* The function f on 1..n as the tuple of its values, each computed once.
Tuple(f) == f \o <<>>

\* array.some(...) over the verdicts of its elements, in order.
Some3(verdicts) ==
    LET v == Tuple(verdicts)
        hits == {i \in 1..Len(v) : v[i] # "F"}
    IN  IF hits = {} THEN "F" ELSE v[SetMin(hits)]

\* array.find(...) over the verdicts of its elements: the first element
\* whose verdict is true, unless an earlier verdict throws.
Find3(list, verdicts) ==
    LET v == Tuple(verdicts)
        hits == {i \in 1..Len(list) : v[i] # "F"}
    IN  IF hits = {} THEN [threw |-> FALSE, value |-> Undefined]
        ELSE IF v[SetMin(hits)] = "X"
             THEN [threw |-> TRUE, value |-> Undefined]
        ELSE [threw |-> FALSE, value |-> list[SetMin(hits)]]

(***************************************************************************)
(* parseStediResponse: extraction of the benefit list and the tests of     *)
(* its find calls.                                                         *)
(***************************************************************************)
Benefits_OnlyBenefitsKey(data) ==
    OrElse(Get(data, "benefits"), Arr(<<>>))

\* const benefits = data.benefits || data.benefitsInformation || []
Benefits(data) ==
    OrElse(OrElse(Get(data, "benefits"), Get(data, "benefitsInformation")),
           Arr(<<>>))

\* b.code === c; reading a field of null or undefined throws.
CodeIs(b, c) ==
    IF IsNullish(b) THEN "X" ELSE Bool3(IsString(Get(b, "code"), c))

\* b.name?.toLowerCase().includes(kw); a name that is neither a string nor
\* absent has no toLowerCase.
NameIncludes(b, kw) ==
    IF IsNullish(b) THEN "X"
    ELSE LET name == Get(b, "name")
         IN  IF IsNullish(name) THEN "F"
             ELSE IF name.t # "string" THEN "X"
             ELSE Bool3(Includes(LowerCased(name.v), kw))

\* st.toLowerCase().includes(kw) for an element of serviceTypes.
ServiceTypeIncludes(st, kw) ==
    IF st.t # "string" THEN "X" ELSE Bool3(Includes(LowerCased(st.v), kw))

\* b.serviceTypes?.some(st => st.toLowerCase().includes(kw)); only an array
\* has some.
AnyServiceType(b, kw) ==
    IF IsNullish(b) THEN "X"
    ELSE LET sts == Get(b, "serviceTypes")
         IN  IF IsNullish(sts) THEN "F"
             ELSE IF sts.t # "array" THEN "X"
             ELSE Some3([i \in 1..Len(sts.v) |->
                            ServiceTypeIncludes(sts.v[i], kw)])

\* b.code === 'C' || b.name?.toLowerCase().includes('deductible')
IsDeductible(b) == Or3(CodeIs(b, "C"), NameIncludes(b, "deductible"))

\* b.code === 'D' || b.name?.toLowerCase().includes('maximum')
IsMaximum(b) == Or3(CodeIs(b, "D"), NameIncludes(b, "maximum"))

\* b.coverageLevelCode === 'FAM', once b is known to be an object.
IsFamilyLevel(b) == IsString(Get(b, "coverageLevelCode"), "FAM")

IndDeductibleTest_AnyLevel(b) == IsDeductible(b)

\* The test of the find for indDeductible.
IndDeductibleTest(b) ==
    And3(IsDeductible(b), Bool3(~IsFamilyLevel(b)))

\* The test of the find for famDeductible.
FamDeductibleTest(b) ==
    And3(IsDeductible(b), Bool3(IsFamilyLevel(b)))

MaxBenefitTest_OrthoToo(b) == IsMaximum(b)

\* The test of the find for maxBenefit.
MaxBenefitTest(b) ==
    And3(IsMaximum(b), Not3(NameIncludes(b, "ortho")))

\* The test of the find for orthoMax.
OrthoMaxTest(b) ==
    And3(IsMaximum(b), NameIncludes(b, "ortho"))

\* The test of the find for majorWait.
MajorWaitTest(b) ==
    And3(NameIncludes(b, "waiting period"),
         Or3(NameIncludes(b, "major"), AnyServiceType(b, "major")))

\* The test of the find of findValue(keywords), and of the filter of a
\* report section: keywords.some(kw => name includes kw || some service
\* type includes kw).
KeywordTest(b, keywords) ==
    Some3([k \in 1..Len(keywords) |->
              Or3(NameIncludes(b, keywords[k]),
                  AnyServiceType(b, keywords[k]))])

\* benefits.find(test), on the list of an array.
FindDeductibleInd(list) ==
    Find3(list, [i \in 1..Len(list) |-> IndDeductibleTest(list[i])])

FindDeductibleFam(list) ==
    Find3(list, [i \in 1..Len(list) |-> FamDeductibleTest(list[i])])

FindMaxBenefit(list) ==
    Find3(list, [i \in 1..Len(list) |-> MaxBenefitTest(list[i])])

FindOrthoMax(list) ==
    Find3(list, [i \in 1..Len(list) |-> OrthoMaxTest(list[i])])

FindMajorWait(list) ==
    Find3(list, [i \in 1..Len(list) |-> MajorWaitTest(list[i])])

\* x?.benefitAmount ? `${prefix}${x.benefitAmount}${suffix}` : otherwise
AmountText(x, prefix, suffix, otherwise) ==
    IF Truthy(OptGet(x, "benefitAmount"))
    THEN Str(prefix \o Text(Get(x, "benefitAmount")) \o suffix)
    ELSE otherwise

\* findValue(keywords)
FindValue(list, keywords) ==
    LET f == Find3(list, [i \in 1..Len(list) |->
                            KeywordTest(list[i], keywords)])
        b == f.value
        percent ==
            IF Truthy(Get(b, "benefitPercent"))
            THEN Str(Text(Get(b, "benefitPercent")) \o "%")
            ELSE IF IsString(Get(b, "code"), "1") THEN Str("Covered")
            ELSE Undefined
        time ==
            IF Truthy(Get(b, "timeQualifier"))
            THEN " (" \o Text(Get(b, "timeQualifier")) \o ")"
            ELSE ""
    IN  IF f.threw THEN f
        ELSE IF ~Truthy(b) THEN [threw |-> FALSE, value |-> Undefined]
        ELSE IF Truthy(percent)
             THEN [threw |-> FALSE, value |-> Str(percent.v \o time)]
        ELSE [threw |-> FALSE, value |-> OrElse(Str(Trim(time)), Undefined)]

\* updateRow that clears the value and leaves the two flags as they were.
UpdateRow_ClearsValueOnly(rows, saiCode, value) ==
    LET found == {i \in 1..Len(rows) : rows[i].saiCode = saiCode}
    IN  IF found = {} THEN rows
        ELSE IF Truthy(value) /\ ~IsString(value, "Not Found")
             THEN [rows EXCEPT ![SetMin(found)] =
                      [@ EXCEPT !.aiCallValue = value, !.missing = "N",
                                !.verifiedBy = "API"]]
        ELSE [rows EXCEPT ![SetMin(found)] =
                 [@ EXCEPT !.aiCallValue = Str("")]]

\* updateRow(saiCode, value), with verified left at its default true as at
\* every call site.
UpdateRow(rows, saiCode, value) ==
    LET found == {i \in 1..Len(rows) : rows[i].saiCode = saiCode}
    IN  IF found = {} THEN rows
        ELSE IF Truthy(value) /\ ~IsString(value, "Not Found")
             THEN [rows EXCEPT ![SetMin(found)] =
                      [@ EXCEPT !.aiCallValue = value, !.missing = "N",
                                !.verifiedBy = "API"]]
        ELSE [rows EXCEPT ![SetMin(found)] =
                 [@ EXCEPT !.aiCallValue = Str(""), !.missing = "Y",
                           !.verifiedBy = "-"]]

\* A sequence of updateRow calls, each given as <<saiCode, value>>.
RECURSIVE UpdateRows(_, _)
UpdateRows(rows, updates) ==
    IF updates = <<>> THEN rows
    ELSE UpdateRows(UpdateRow(rows, updates[1][1], updates[1][2]),
                    Tail(updates))

(***************************************************************************)
(* parseStediResponse, sections 1 to 4: the rows.                          *)
(***************************************************************************)
PlanName(data) ==
    OrElse(OrElse(OptGet(Get(data, "plan"), "planName"),
                  OptGet(Get(data, "planInformation"), "groupDescription")),
           Str("Active Plan"))

GroupNumber(data) ==
    OrElse(OptGet(Get(data, "plan"), "groupNumber"),
           OptGet(Get(data, "planInformation"), "groupNumber"))

EffectiveDate(data) ==
    OrElse(OrElse(OptGet(Get(data, "plan"), "effectiveDate"),
                  OptGet(Get(data, "planDateInformation"), "planBegin")),
           OptGet(Get(data, "planDateInformation"), "eligibilityBegin"))

CarrierName(data) ==
    OrElse(OrElse(OrElse(OptGet(Get(data, "payer"), "name"),
                         OptGet(Get(data, "plan"), "groupName")),
                  OptGet(Get(data, "plan"), "planName")),
           Str("Insurance Carrier"))

MemberId(data) == OptGet(Get(data, "subscriber"), "memberId")

\* The keyword lists of the findValue calls, by the row each one fills.
CoverageKeywords ==
    << <<"VF000010", <<"prophy", "cleaning">> >>,
       <<"VF000011", <<"exam", "eval">> >>,
       <<"VF000012", <<"x-ray", "radiograph", "bitewing", "fms">> >>,
       <<"VF000028", <<"prophylaxis frequency", "exam frequency">> >>,
       <<"VF000020", <<"restorative", "filling", "amalgam", "composite">> >>,
       <<"VF000021", <<"extraction">> >>,
       <<"VF000022", <<"scaling", "root planing", "periodontal maintenance",
                       "periodontic">> >>,
       <<"VF000030", <<"crown">> >>,
       <<"VF000031", <<"bridge", "pontic">> >>,
       <<"VF000032", <<"denture">> >>,
       <<"VF000033", <<"root canal", "endodontic">> >>,
       <<"VF000034", <<"implant">> >> >>

\* The finds of sections 2 to 4 on the list of benefits, in program order.
Finds(list) ==
    [ind |-> FindDeductibleInd(list),
     fam |-> FindDeductibleFam(list),
     max |-> FindMaxBenefit(list),
     ortho |-> FindOrthoMax(list),
     coverage |-> Tuple([k \in 1..Len(CoverageKeywords) |->
                            FindValue(list, CoverageKeywords[k][2])]),
     majorWait |-> FindMajorWait(list)]

\* One of the finds throws.
FindsThrow(f) ==
    \/ f.ind.threw \/ f.fam.threw \/ f.max.threw \/ f.ortho.threw
    \/ \E k \in 1..Len(CoverageKeywords) : f.coverage[k].threw
    \/ f.majorWait.threw

\* The value findValue hands to updateRow for a coverage row; VF000028 has a
\* default.
CoverageValue(f, k) ==
    IF CoverageKeywords[k][1] = "VF000028"
    THEN OrElse(f.coverage[k].value, Str("2x per Year (Standard)"))
    ELSE f.coverage[k].value

\* The updateRow calls of the function, in program order.
RowUpdates(data, f) ==
    << <<"VF000001", PlanName(data)>>,
       <<"VF000002", GroupNumber(data)>>,
       <<"VF000003", EffectiveDate(data)>>,
       <<"VF000004", CarrierName(data)>>,
       <<"VF000005", MemberId(data)>>,
       <<"VF000051",
         AmountText(f.ind.value, "$", " (Individual)", Undefined)>>,
       <<"VF000052",
         OrElse(OptGet(f.ind.value, "name"),
                OptFirst(OptGet(f.ind.value, "serviceTypes")))>>,
       <<"VF000053", AmountText(f.fam.value, "$", " (Family)", Undefined)>>,
       <<"VF000060", AmountText(f.max.value, "$", "", Undefined)>>,
       <<"VF000061",
         AmountText(f.ortho.value, "$", " (Ortho)", Str("Not Found"))>> >>
    \o [k \in 1..Len(CoverageKeywords) |->
           <<CoverageKeywords[k][1], CoverageValue(f, k)>>]
    \o << <<"VF000045",
            AmountText(f.majorWait.value, "", " Months", Str("None"))>> >>

\* The rows the function has written when it reaches section 5.
VerificationData(copy, data, f) == UpdateRows(copy, RowUpdates(data, f))

(***************************************************************************)
(* parseStediResponse, section 5: the report.  codeAnalysis is kept as the *)
(* sequence of its lines, each one ended by "\n" in the string.            *)
(***************************************************************************)
\* The ruler line: 47 box-drawing characters U+2501, written here as "=".
Ruler == "==============================================="

\* The check mark U+2713 of a section line, written here as "+".
CheckMark == "+"

\* benefits.slice(0, 20)
FallbackLimit == 20

ReportTitle ==
    <<"COVERAGE BY CODE VIEW - DETAILED ANALYSIS (STEDI API LIVE DATA)", "">>

ReportSections ==
    << [name |-> "Preventive Services",
        keywords |-> <<"preventive", "cleaning", "eval", "exam", "x-ray",
                       "prophy", "fluoride">>],
       [name |-> "Basic Services",
        keywords |-> <<"restorative", "basic", "filling", "amalgam",
                       "composite", "extraction", "simple extraction">>],
       [name |-> "Major Services",
        keywords |-> <<"major", "prosthodontics", "crown", "bridge",
                       "denture", "endodontic", "root canal", "surgical">>],
       [name |-> "Periodontal Services",
        keywords |-> <<"periodontic", "scaling", "root planing",
                       "maintenance">>] >>

\* array.filter(...) over the verdicts of its elements.
Filter3(list, verdicts) ==
    LET v == Tuple(verdicts)
        kept == {i \in 1..Len(list) : v[i] = "T"}
        Nth(k) == CHOOSE i \in kept : Cardinality({j \in kept : j <= i}) = k
    IN  IF \E i \in 1..Len(list) : v[i] = "X"
        THEN [threw |-> TRUE, value |-> <<>>]
        ELSE [threw |-> FALSE,
              value |-> Tuple([k \in 1..Cardinality(kept) |-> list[Nth(k)]])]

\* b.procedureCode || b.name || (b.serviceTypes && b.serviceTypes.length > 0)
ProcedureTest(b) ==
    IF IsNullish(b) THEN "X"
    ELSE Bool3(\/ Truthy(Get(b, "procedureCode"))
               \/ Truthy(Get(b, "name"))
               \/ /\ Truthy(Get(b, "serviceTypes"))
                  /\ HasLength(Get(b, "serviceTypes")))

\* The result of lines joined from parts that may throw.
Thrown == [threw |-> TRUE, value |-> <<>>]
Lines(seq) == [threw |-> FALSE, value |-> seq]

\* The line of one benefit in a section; padEnd exists on strings only.
SectionLine(b) ==
    LET name == OrElse(OrElse(Get(b, "name"),
                              OptFirst(Get(b, "serviceTypes"))),
                       Str("Procedure"))
        code == OrElse(Get(b, "procedureCode"), Str("N/A"))
        amount == AmountText(b, "$", "", Str("$0.00"))
        percent ==
            IF Truthy(Get(b, "benefitPercent"))
            THEN Text(Get(b, "benefitPercent")) \o "%"
            ELSE IF IsString(Get(b, "code"), "1") THEN "Covered" ELSE "N/A"
    IN  IF code.t # "string" \/ name.t # "string" THEN Thrown
        ELSE Lines(<<PadEnd(code.v, 6) \o " " \o PadEnd(name.v, 30) \o " "
                     \o PadEnd(amount.v, 10) \o " $0.00     " \o CheckMark
                     \o " "
                     \o (IF percent = "100%" THEN "100% (Covered)"
                         ELSE percent)
                     \o " Coverage">>)

\* Concatenation of line blocks; a thrown block makes the whole throw.
RECURSIVE Concat(_)
Concat(blocks) ==
    IF blocks = <<>> THEN Lines(<<>>)
    ELSE LET rest == Concat(Tail(blocks))
         IN  IF blocks[1].threw \/ rest.threw THEN Thrown
             ELSE Lines(blocks[1].value \o rest.value)

\* The block one section adds to the report.
SectionBlock(procedureBenefits, section) ==
    LET sectionBenefits ==
            Filter3(procedureBenefits,
                    [i \in 1..Len(procedureBenefits) |->
                        KeywordTest(procedureBenefits[i], section.keywords)])
    IN  IF sectionBenefits.threw THEN Thrown
        ELSE IF Len(sectionBenefits.value) = 0 THEN Lines(<<>>)
        ELSE Concat(<<Lines(<<section.name \o ":", Ruler>>)>>
                    \o [i \in 1..Len(sectionBenefits.value) |->
                           SectionLine(sectionBenefits.value[i])]
                    \o <<Lines(<<"">>)>>)

\* The line of one benefit in the fallback table, if it has a name.
FallbackLine(b) ==
    IF IsNullish(b) THEN Thrown
    ELSE LET sts == Get(b, "serviceTypes")
             name == OrElse(OrElse(Get(b, "name"),
                                   IF Truthy(sts) THEN OptFirst(sts) ELSE sts),
                            Str("Unknown"))
             percent == IF Truthy(Get(b, "benefitPercent"))
                        THEN Text(Get(b, "benefitPercent")) \o "%" ELSE ""
             amount == IF Truthy(Get(b, "benefitAmount"))
                       THEN "$" \o Text(Get(b, "benefitAmount")) ELSE ""
             level == IF Truthy(Get(b, "coverageLevel"))
                      THEN "(" \o Text(Get(b, "coverageLevel")) \o ")" ELSE ""
             sep1 == IF percent # "" /\ (amount # "" \/ level # "")
                     THEN " " ELSE ""
             sep2 == IF amount # "" /\ level # "" THEN " " ELSE ""
         IN  IF IsString(name, "Unknown") THEN Lines(<<>>)
             ELSE IF name.t # "string" THEN Thrown
             ELSE Lines(<<PadEnd(name.v, 40) \o " " \o percent \o sep1
                          \o amount \o sep2 \o level>>)

\* analysis.includes(ruler)
HasRuler(lines) == \E i \in 1..Len(lines) : Includes(lines[i], Ruler)

\* The fallback table, added when no section was.
FallbackBlock(list, sections) ==
    IF HasRuler(sections) THEN Lines(<<>>)
    ELSE Concat(<<Lines(<<"Detailed Benefits Table:", Ruler>>)>>
                \o [i \in 1..(IF Len(list) < FallbackLimit THEN Len(list)
                              ELSE FallbackLimit) |-> FallbackLine(list[i])])

\* The closing block of the report.
ClosingBlock(data, f) ==
    <<"",
      "ANNUAL BENEFIT STATUS:",
      Ruler,
      "Maximum Benefit:        "
         \o AmountText(f.max.value, "$", "", Str("Not Found")).v,
      "Deductible:             "
         \o AmountText(f.ind.value, "$", "", Str("Not Found")).v,
      "Plan Status:            "
         \o Text(OrElse(OrElse(OptGet(OptFirst(Get(data, "planStatus")),
                                      "description"),
                               OptGet(Get(data, "plan"), "status")),
                        Str("Active"))),
      "Member ID:              " \o Text(OrElse(MemberId(data), Str("N/A")))>>

\* The report of section 5 on the list of benefits.
CodeAnalysis(data, list, f) ==
    LET procedureBenefits ==
            Filter3(list, [i \in 1..Len(list) |-> ProcedureTest(list[i])])
        sections ==
            IF procedureBenefits.threw THEN Thrown
            ELSE Concat([k \in 1..Len(ReportSections) |->
                            SectionBlock(procedureBenefits.value,
                                         ReportSections[k])])
        fallback ==
            IF sections.threw THEN Thrown
            ELSE FallbackBlock(list, ReportTitle \o sections.value)
    IN  IF fallback.threw THEN Thrown
        ELSE Lines(ReportTitle \o sections.value \o fallback.value
                   \o ClosingBlock(data, f))

\* JSON.parse(JSON.stringify(rows)): new objects with the same fields; the
\* fields of a row are strings, which the round trip keeps.
JsonCopy(rows) ==
    [i \in 1..Len(rows) |-> [field \in DOMAIN rows[i] |-> rows[i][field]]]

\* What a call throws instead of returning.
TypeError == [threw |-> TRUE]

\* parseStediResponse(stediJson), given the copy of the catalog it works on.
\* benefits.find exists only if benefits is an array.
ParseStediResponse(json, copy) ==
    LET data == OrElse(json, EmptyObject)
        benefits == Benefits(data)
    IN  IF benefits.t # "array" THEN TypeError
        ELSE LET f == Finds(benefits.v)
                 analysis ==
                     IF FindsThrow(f) THEN Thrown
                     ELSE CodeAnalysis(data, benefits.v, f)
             IN  IF analysis.threw THEN TypeError
                 ELSE [threw |-> FALSE,
                       verificationData |-> VerificationData(copy, data, f),
                       codeAnalysis |-> analysis.value]

(***************************************************************************)
(* Raw responses the Normalizer is called on.                              *)
(***************************************************************************)
MaxBenefits == 2

\* Entries of a benefit list as the interface StediBenefit declares them,
\* and a null entry.
CoreEntries ==
    {Obj([code |-> Str("D"), name |-> Str("Annual Maximum"),
          benefitAmount |-> Str("1200")]),
     Obj([code |-> Str("D"), name |-> Str("Orthodontic Maximum"),
          benefitAmount |-> Str("1500")]),
     Obj([code |-> Str("C"), name |-> Str("Deductible"),
          coverageLevelCode |-> Str("IND"), benefitAmount |-> Str("50")]),
     Obj([code |-> Str("C"), name |-> Str("Deductible"),
          coverageLevelCode |-> Str("FAM"), benefitAmount |-> Str("150")]),
     Obj([name |-> Str("Crown"), benefitPercent |-> Str("50"),
          timeQualifier |-> Str("Calendar Year"),
          procedureCode |-> Str("D2740")]),
     Null}

\* More entries: with fields absent, empty, or of another type than
\* declared.
BenefitEntries ==
    CoreEntries \cup
    {Obj([name |-> Str("ANNUAL MAXIMUM"), benefitAmount |-> Str("2000")]),
     Obj([code |-> Str("D"), name |-> Str("Annual Maximum"),
          benefitAmount |-> Str("")]),
     Obj([code |-> Str("D"), benefitAmount |-> Num(1000)]),
     Obj([name |-> Str("Calendar Year Deductible"),
          benefitAmount |-> Str("75")]),
     Obj([code |-> Str("C"), coverageLevelCode |-> Str("FAM"),
          serviceTypes |-> Arr(<<Str("Dental Care")>>)]),
     Obj([code |-> Str("1"),
          serviceTypes |-> Arr(<<Str("Prophylaxis Cleaning")>>)]),
     Obj([name |-> Str("Waiting Period - Major"),
          benefitAmount |-> Str("12")]),
     Obj([name |-> Str("Exam Frequency"),
          timeQualifier |-> Str("2 per year")]),
     Obj([coverageLevel |-> Str("Individual"), benefitAmount |-> Str("10")]),
     Obj([name |-> Num(42), benefitAmount |-> Str("5")]),
     Obj([code |-> Str("D"), serviceTypes |-> Str("Dental")])}

\* The fields of a response beside its benefit list.
Headers ==
    {[f \in {} |-> Undefined],
     [plan |-> Obj([planName |-> Str("Dental PPO"),
                    groupNumber |-> Str("G100"),
                    effectiveDate |-> Str("2024-01-01"),
                    status |-> Str("Active Coverage")]),
      payer |-> Obj([name |-> Str("Delta Dental")]),
      subscriber |-> Obj([memberId |-> Str("M123")])],
     [planInformation |-> Obj([groupDescription |-> Str("Group Dental"),
                               groupNumber |-> Str("G200")]),
      planDateInformation |-> Obj([eligibilityBegin |-> Str("2023-06-01")]),
      planStatus |-> Arr(<<Obj([description |-> Str("Terminated")])>>)],
     [plan |-> Null, subscriber |-> Obj([memberId |-> Str("")]),
      planStatus |-> Arr(<<>>)],
     [plan |-> Obj([planName |-> Str("Not Found")]),
      subscriber |-> Obj([memberId |-> Str("M9")])]}

\* The benefit lists of at most n entries.
BenefitLists(n) ==
    UNION {[1..k -> BenefitEntries] : k \in 0..n}

\* header extended with field key holding value.
WithField(header, key, value) ==
    [f \in DOMAIN header \cup {key} |->
        IF f = key THEN value ELSE header[f]]

\* The headers that name the plan, the payer and the subscriber, or nothing.
PlanHeaders ==
    {h \in Headers : "payer" \in DOMAIN h \/ DOMAIN h = {}}

\* An entry with a name no section keyword occurs in.
Item(i) ==
    Obj([name |-> Str("Plan item " \o ToString(i)),
         benefitPercent |-> Str("80")])

\* Lists around the length benefits.slice(0, 20) cuts at: of items only,
\* and of items followed by an entry a section lists; a list with an entry
\* named "Unknown".
LongLists ==
    {[i \in 1..n |-> Item(i)] :
        n \in (FallbackLimit - 1)..(FallbackLimit + 2)}
    \cup {[i \in 1..(FallbackLimit + 1) |->
              IF i <= FallbackLimit THEN Item(i)
              ELSE Obj([name |-> Str("Crown"), benefitPercent |-> Str("50"),
                        procedureCode |-> Str("D2740")])]}
    \cup {<<Item(1),
             Obj([name |-> Str("Unknown"), benefitPercent |-> Str("80")]),
             Item(2)>>}

\* The raw responses: every header with each list of at most one entry,
\* under either key, under both keys, or with a benefits value that is not
\* an array; the longer lists without a header; the longer lists of
\* well-formed entries with a plan header, under either key; the long
\* lists.
Payloads ==
    {Obj(h) : h \in Headers}
    \cup {Obj(WithField(h, key, Arr(list))) :
            h \in Headers, key \in {"benefits", "benefitsInformation"},
            list \in BenefitLists(1)}
    \cup {Obj(WithField(WithField(h, "benefitsInformation", Arr(list)),
                        "benefits", other)) :
            h \in Headers, list \in BenefitLists(1),
            other \in {Arr(<<>>), Null, Str(""), Str("none"), Num(3)}}
    \cup {Obj([benefits |-> Arr(list)]) : list \in BenefitLists(MaxBenefits)}
    \cup {Obj(WithField(h, key, Arr(list))) :
            h \in PlanHeaders, key \in {"benefits", "benefitsInformation"},
            list \in UNION {[1..k -> CoreEntries] : k \in 0..MaxBenefits}}
    \cup {Obj([benefits |-> Arr(list)]) : list \in LongLists}

\* The few responses the calls of one session are made on.
SessionPayloads ==
    {EmptyObject,
     Obj([benefits |-> Arr(<<Obj([code |-> Str("D"),
                                  name |-> Str("Annual Maximum"),
                                  benefitAmount |-> Str("1200")])>>)]),
     Obj([benefits |-> Arr(<<Null>>)]),
     Obj([subscriber |-> Obj([memberId |-> Str("M123")]),
          benefitsInformation |->
              Arr(<<Obj([code |-> Str("C"), name |-> Str("Deductible"),
                         coverageLevelCode |-> Str("FAM"),
                         benefitAmount |-> Str("150")])>>)])}

(***************************************************************************)
(* Calls of the Normalizer, and callers changing the rows they were given. *)
(***************************************************************************)
MaxCalls == 2
MaxEdits == 2

VerificationDataRef_Template(h) == TemplateRef

\* The reference of the array verificationData of a call: the array that
\* JSON.parse allocates.
VerificationDataRef(h) == Cardinality(DOMAIN h \ {TemplateRef}) + 1

\* The rows the array of reference ref holds: what was last written to it,
\* and for the static catalog never written, its literal.
Deref(h, ref) ==
    IF ref \in DOMAIN h THEN h[ref] ELSE API_VERIFICATION_DATA

\* h with the array of reference ref holding rows.
Store(h, ref, rows) ==
    [r \in DOMAIN h \cup {ref} |-> IF r = ref THEN rows ELSE h[r]]

\* One call parseStediResponse(json).  The copy of a call that throws is
\* reachable from nowhere and is not kept.
Normalize(json) ==
    LET ref == VerificationDataRef(heap)
        copied == Store(heap, ref, JsonCopy(Deref(heap, TemplateRef)))
        result == ParseStediResponse(json, copied[ref])
    IN  /\ heap' = IF result.threw THEN heap
                   ELSE Store(copied, ref, result.verificationData)
        /\ returned' =
              Append(returned,
                     IF result.threw THEN [stediJson |-> json, threw |-> TRUE]
                     ELSE [stediJson |-> json, threw |-> FALSE,
                           verificationData |-> ref,
                           codeAnalysis |-> result.codeAnalysis])
        /\ UNCHANGED edits
        /\ UNCHANGED normOtherVars

\* The Normalizer is called once, on any raw response.
NormalizeAny ==
    /\ Len(returned) < 1
    /\ \E json \in Payloads : Normalize(json)

\* The Normalizer is called again in a session.
NormalizeAgain ==
    /\ Len(returned) < MaxCalls
    /\ \E json \in SessionPayloads : Normalize(json)

\* What a caller writes into a row it was given.
EditedRow(row) ==
    [row EXCEPT !.aiCallValue = Str("Edited"), !.missing = "N",
                !.verifiedBy = "CALL"]

\* The rows a caller changes: the first, one in the middle, the last.
EditedIndexes == {1, 15, Len(API_VERIFICATION_DATA)}

\* A caller changes row i of the rows call k returned.
EditReturnedRow(k, i) ==
    /\ edits < MaxEdits
    /\ ~returned[k].threw
    /\ heap' = [heap EXCEPT ![returned[k].verificationData][i] =
                                EditedRow(@)]
    /\ edits' = edits + 1
    /\ UNCHANGED returned
    /\ UNCHANGED normOtherVars

NormNext == NormalizeAny

SpecNorm == Init /\ [][NormNext]_vars

CatalogNext ==
    \/ NormalizeAgain
    \/ \E k \in 1..Len(returned) : \E i \in EditedIndexes :
          EditReturnedRow(k, i)

SpecCatalog == Init /\ [][CatalogNext]_vars

\* The last call returned: its argument, rows and report.
Returned == Len(returned) > 0 /\ ~returned[Len(returned)].threw
Input == returned[Len(returned)].stediJson
OutputRows == Deref(heap, returned[Len(returned)].verificationData)
Report == returned[Len(returned)].codeAnalysis

\* The row of the output with the given code.
OutputRow(saiCode) ==
    OutputRows[CHOOSE i \in 1..Len(OutputRows) :
                  OutputRows[i].saiCode = saiCode]

(***************************************************************************)
(* What a raw response supplies, read off the response itself.             *)
(***************************************************************************)
\* The texts of the strings and numbers a value holds, at any depth.
RECURSIVE Leaves(_)
Leaves(v) ==
    CASE v.t = "string" -> {v.v}
      [] v.t = "number" -> {ToString(v.v)}
      [] v.t = "array" -> UNION {Leaves(v.v[i]) : i \in 1..Len(v.v)}
      [] v.t = "object" -> UNION {Leaves(v.v[f]) : f \in DOMAIN v.v}
      [] OTHER -> {}

\* The value of a row was extracted from the response: it shows a non-empty
\* text of the response other than "Not Found", or it is the word for the
\* code "1" of one of its benefits.
ExtractedFrom(json, value) ==
    /\ Truthy(value)
    /\ \/ \E text \in Leaves(json) :
             /\ text \notin {"", "Not Found"}
             /\ Includes(Text(value), text)
       \/ IsString(value, "Covered") /\ "1" \in Leaves(json)

\* A row reported as not verified.
IsCleared(row) ==
    /\ row.aiCallValue = Str("")
    /\ row.missing = "Y"
    /\ row.verifiedBy = "-"

\* C13: when the response supplies no value for a row, the row comes back
\* with aiCallValue "", missing "Y" and verifiedBy "-"; no row is reported
\* missing "N" without a value extracted from the response.
C13_NoValueMeansMissing ==
    Returned =>
        \A i \in 1..Len(OutputRows) :
            \/ ExtractedFrom(Input, OutputRows[i].aiCallValue)
            \/ IsCleared(OutputRows[i])

\* C14: for the response {} every returned row has missing "Y" and the
\* report is a non-empty string.
C14_EmptyResponse ==
    (Len(returned) > 0 /\ Input = EmptyObject) =>
        /\ Returned
        /\ \A i \in 1..Len(OutputRows) : OutputRows[i].missing = "Y"
        /\ \E l \in 1..Len(Report) : Report[l] # ""

\* The benefit list a response carries: the array under benefits or,
\* failing that, the array under benefitsInformation.
CarriedList(json) ==
    IF "benefits" \in DOMAIN json.v /\ json.v.benefits.t = "array"
    THEN json.v.benefits.v
    ELSE IF /\ "benefitsInformation" \in DOMAIN json.v
            /\ json.v.benefitsInformation.t = "array"
         THEN json.v.benefitsInformation.v
    ELSE <<>>

\* The name of a benefit in lower case, "" when it has no name.
LowerName(b) ==
    IF b.t = "object" /\ "name" \in DOMAIN b.v /\ b.v.name.t = "string"
    THEN ToLowerCase(b.v.name.v) ELSE ""

\* The code of a benefit is c.
HasCode(b, c) ==
    b.t = "object" /\ "code" \in DOMAIN b.v /\ b.v.code = Str(c)

\* The text of the benefitAmount of a benefit, "" when it has none.
AmountOf(b) ==
    IF b.t = "object" /\ "benefitAmount" \in DOMAIN b.v
       /\ b.v.benefitAmount.t \in {"string", "number"}
    THEN Text(b.v.benefitAmount) ELSE ""

\* The maximum predicate of the claim.
MatchesMaximum(b) ==
    /\ HasCode(b, "D") \/ Includes(LowerName(b), "maximum")
    /\ ~Includes(LowerName(b), "ortho")

\* The positions of list whose benefit is in the set matching.
Positions(list, matching) == {i \in 1..Len(list) : list[i] \in matching}

\* The amount of the first benefit of list that is in the set matching, ""
\* when there is none.
FirstAmount(list, matching) ==
    IF Positions(list, matching) = {} THEN ""
    ELSE AmountOf(list[SetMin(Positions(list, matching))])

Maximums == {b \in BenefitEntries : MatchesMaximum(b)}

\* C15: when the first benefit matching the maximum predicate carries a
\* non-empty benefitAmount a, row VF000060 comes back with aiCallValue "$"
\* followed by a, missing "N" and verifiedBy "API".
C15_MaximumRow ==
    (Returned /\ FirstAmount(CarriedList(Input), Maximums) # "") =>
        /\ OutputRow("VF000060").aiCallValue =
              Str("$" \o FirstAmount(CarriedList(Input), Maximums))
        /\ OutputRow("VF000060").missing = "N"
        /\ OutputRow("VF000060").verifiedBy = "API"

\* The response lists an orthodontic maximum before the annual maximum, and
\* row VF000060 shows the annual one.
C15_Witness ==
    /\ Returned
    /\ Len(CarriedList(Input)) = 2
    /\ Includes(LowerName(CarriedList(Input)[1]), "ortho")
    /\ CarriedList(Input)[2] \in Maximums
    /\ OutputRow("VF000060").aiCallValue = Str("$1200")
    /\ OutputRow("VF000060").missing = "N"

\* C16: every call of the Normalizer on a JSON object returns rows and a
\* report; none throws.
C16_NeverThrows ==
    \A k \in 1..Len(returned) : ~returned[k].threw

\* The deductible predicate of the claim, and the coverage level.
MatchesDeductible(b) ==
    HasCode(b, "C") \/ Includes(LowerName(b), "deductible")

IsFamily(b) ==
    b.t = "object" /\ "coverageLevelCode" \in DOMAIN b.v
    /\ b.v.coverageLevelCode = Str("FAM")

IndividualDeductibles ==
    {b \in BenefitEntries : MatchesDeductible(b) /\ ~IsFamily(b)}

FamilyDeductibles ==
    {b \in BenefitEntries : MatchesDeductible(b) /\ IsFamily(b)}

\* Row saiCode shows the amount, between "$" and suffix, or is cleared when
\* the amount is "".
ShowsAmount(saiCode, amount, suffix) ==
    IF amount = "" THEN IsCleared(OutputRow(saiCode))
    ELSE /\ OutputRow(saiCode).aiCallValue = Str("$" \o amount \o suffix)
         /\ OutputRow(saiCode).missing = "N"
         /\ OutputRow(saiCode).verifiedBy = "API"

\* C18: row VF000051 is filled from the first deductible benefit whose
\* coverageLevelCode is not "FAM" and from no other benefit, row VF000053
\* from the first deductible benefit whose coverageLevelCode is "FAM" and
\* from no other, wherever the two stand in the list.
C18_DeductibleLevels ==
    Returned =>
        /\ ShowsAmount("VF000051",
                       FirstAmount(CarriedList(Input), IndividualDeductibles),
                       " (Individual)")
        /\ ShowsAmount("VF000053",
                       FirstAmount(CarriedList(Input), FamilyDeductibles),
                       " (Family)")

\* The response lists the family deductible before the individual one, and
\* each row shows its own.
C18_Witness ==
    /\ Returned
    /\ Len(CarriedList(Input)) = 2
    /\ CarriedList(Input)[1] \in FamilyDeductibles
    /\ CarriedList(Input)[2] \in IndividualDeductibles
    /\ OutputRow("VF000051").aiCallValue = Str("$50 (Individual)")
    /\ OutputRow("VF000053").aiCallValue = Str("$150 (Family)")

\* The response json without the field key.
WithoutField(json, key) ==
    Obj([f \in DOMAIN json.v \ {key} |-> json.v[f]])

\* The outcome of the last call: whether it threw and, if not, its rows
\* and report.
Outcome ==
    IF returned[Len(returned)].threw THEN TypeError
    ELSE [threw |-> FALSE, verificationData |-> OutputRows,
          codeAnalysis |-> Report]

\* The list is under benefitsInformation only.
OnlyUnderBenefitsInformation(json) ==
    /\ "benefitsInformation" \in DOMAIN json.v
    /\ "benefits" \notin DOMAIN json.v

\* The response has neither key.
NeitherKey(json) ==
    /\ "benefitsInformation" \notin DOMAIN json.v
    /\ "benefits" \notin DOMAIN json.v

\* C19: a response carrying its list under benefitsInformation only is
\* normalized as the response carrying the same list under benefits, and a
\* response with neither key as the one with an empty list under benefits.
C19_EitherKey ==
    Len(returned) > 0 =>
        /\ OnlyUnderBenefitsInformation(Input) =>
              Outcome =
                 ParseStediResponse(
                    Obj(WithField(WithoutField(Input, "benefitsInformation").v,
                                  "benefits", Input.v.benefitsInformation)),
                    API_VERIFICATION_DATA)
        /\ NeitherKey(Input) =>
              Outcome =
                 ParseStediResponse(
                    Obj(WithField(Input.v, "benefits", Arr(<<>>))),
                    API_VERIFICATION_DATA)

\* A response with two benefits under benefitsInformation only was
\* normalized, and its rows show them.
C19_Witness ==
    /\ Returned
    /\ OnlyUnderBenefitsInformation(Input)
    /\ Len(Input.v.benefitsInformation.v) = 2
    /\ OutputRow("VF000060").missing = "N"
    /\ OutputRow("VF000051").missing = "N"

\* The text of the field of the object under key of a response, "" when the
\* response has no such text.
FieldText(json, key, field) ==
    IF /\ key \in DOMAIN json.v
       /\ json.v[key].t = "object"
       /\ field \in DOMAIN json.v[key].v
       /\ json.v[key].v[field].t = "string"
    THEN json.v[key].v[field].v ELSE ""

\* The plan status a response supplies: the description of its first
\* planStatus entry or, failing that, plan.status; "" when it has neither.
SuppliedPlanStatus(json) ==
    IF /\ "planStatus" \in DOMAIN json.v
       /\ json.v.planStatus.t = "array"
       /\ Len(json.v.planStatus.v) > 0
       /\ FieldText(Obj([first |-> json.v.planStatus.v[1]]), "first",
                    "description") # ""
    THEN FieldText(Obj([first |-> json.v.planStatus.v[1]]), "first",
                   "description")
    ELSE FieldText(json, "plan", "status")

\* A line of the closing block: the label, then the value or "Not Found".
ClosingLine(label, prefix, value) ==
    label \o (IF value = "" THEN "Not Found" ELSE prefix \o value)

\* C20: the last four lines of the report show the maximum benefit, the
\* deductible, the plan status and the member ID, each with the value the
\* response supplies or with "Not Found" when it supplies none.
C20_ClosingBlock ==
    Returned =>
        LET n == Len(Report)
        IN  /\ n >= 4
            /\ Report[n - 3] =
                  ClosingLine("Maximum Benefit:        ", "$",
                              FirstAmount(CarriedList(Input), Maximums))
            /\ Report[n - 2] =
                  ClosingLine("Deductible:             ", "$",
                              FirstAmount(CarriedList(Input),
                                          IndividualDeductibles))
            /\ Report[n - 1] =
                  ClosingLine("Plan Status:            ", "",
                              SuppliedPlanStatus(Input))
            /\ Report[n] =
                  ClosingLine("Member ID:              ", "",
                              FieldText(Input, "subscriber", "memberId"))

\* The rows call k returned.
RowsOfCall(h, k) == Deref(h, returned[k].verificationData)

\* The calls whose returned rows differ between the heaps h and g.
ChangedCalls(h, g) ==
    {k \in 1..Len(returned) :
        ~returned[k].threw /\ RowsOfCall(h, k) # RowsOfCall(g, k)}

\* C17: no step changes API_VERIFICATION_DATA; a call of the Normalizer
\* changes the rows no earlier call returned, and a change a caller makes
\* to the rows of one call changes the rows of no other call.
C17_NoSharedCatalogMutation ==
    [][/\ Deref(heap', TemplateRef) = API_VERIFICATION_DATA
       /\ edits' = edits => ChangedCalls(heap, heap') = {}
       /\ edits' # edits => Cardinality(ChangedCalls(heap, heap')) <= 1]_vars

\* Two calls returned rows and a caller changed rows of the first one; the
\* second call's rows and the catalog are as they were.
C17_Witness ==
    /\ Len(returned) = 2
    /\ ~returned[1].threw
    /\ ~returned[2].threw
    /\ edits > 0
    /\ \E i \in 1..Len(API_VERIFICATION_DATA) :
          /\ RowsOfCall(heap, 1)[i].verifiedBy = "CALL"
          /\ RowsOfCall(heap, 2)[i].verifiedBy # "CALL"
          /\ Deref(heap, TemplateRef)[i].verifiedBy # "CALL"

(***************************************************************************)
(* SSNInput: formatSSN, maskSSN, getDigitsOnly and the handlers of the     *)
(* component.  The bullet U+2022 is written here as "*".                   *)
(***************************************************************************)
\* The characters \d matches.
Digits == {"0", "1", "2", "3", "4", "5", "6", "7", "8", "9"}

Bullet == "*"

\* s.replace(/\D/g, '')
RECURSIVE RemoveNonDigits(_)
RemoveNonDigits(s) ==
    IF s = "" THEN ""
    ELSE (IF SubSeq(s, 1, 1) \in Digits THEN SubSeq(s, 1, 1) ELSE "")
         \o RemoveNonDigits(SubSeq(s, 2, Len(s)))

\* s.slice(from, to), for 0 <= from
Slice(s, from, to) == SubSeq(s, from + 1, IF to < Len(s) THEN to ELSE Len(s))

\* s.slice(from)
SliceFrom(s, from) == SubSeq(s, from + 1, Len(s))

\* s.repeat(n)
RECURSIVE Repeat(_, _)
Repeat(s, n) == IF n = 0 THEN "" ELSE s \o Repeat(s, n - 1)

\* formatSSN grouping the digits by three.
FormatSSN_ByThree(digits) ==
    LET cleaned == Slice(RemoveNonDigits(digits), 0, 9)
    IN  IF Len(cleaned) <= 3 THEN cleaned
        ELSE IF Len(cleaned) <= 6
        THEN Slice(cleaned, 0, 3) \o "-" \o SliceFrom(cleaned, 3)
        ELSE Slice(cleaned, 0, 3) \o "-" \o Slice(cleaned, 3, 6) \o "-"
             \o SliceFrom(cleaned, 6)

\* formatSSN
FormatSSN(digits) ==
    LET cleaned == Slice(RemoveNonDigits(digits), 0, 9)
    IN  IF Len(cleaned) = 0 THEN ""
        ELSE IF Len(cleaned) <= 3 THEN cleaned
        ELSE IF Len(cleaned) <= 5
        THEN Slice(cleaned, 0, 3) \o "-" \o SliceFrom(cleaned, 3)
        ELSE Slice(cleaned, 0, 3) \o "-" \o Slice(cleaned, 3, 5) \o "-"
             \o SliceFrom(cleaned, 5)

\* maskSSN showing the digits from the fourth on.
MaskSSN_FirstThree(value) ==
    LET digits == RemoveNonDigits(value)
    IN  IF Len(digits) = 0 THEN ""
        ELSE IF Len(digits) <= 3 THEN Repeat(Bullet, Len(digits))
        ELSE IF Len(digits) <= 5
        THEN Repeat(Bullet, 3) \o "-" \o SliceFrom(digits, 3)
        ELSE Repeat(Bullet, 3) \o "-" \o Slice(digits, 3, 5) \o "-"
             \o SliceFrom(digits, 5)

\* maskSSN
MaskSSN(value) ==
    LET digits == RemoveNonDigits(value)
    IN  IF Len(digits) = 0 THEN ""
        ELSE IF Len(digits) <= 3 THEN Repeat(Bullet, Len(digits))
        ELSE IF Len(digits) <= 5
        THEN Repeat(Bullet, 3) \o "-" \o Repeat(Bullet, Len(digits) - 3)
        ELSE Repeat(Bullet, 3) \o "-" \o Repeat(Bullet, 2) \o "-"
             \o SliceFrom(digits, 5)

\* getDigitsOnly
GetDigitsOnly(value) == Slice(RemoveNonDigits(value), 0, 9)

\* const effectiveIsVisible = isVisible || isFocused
EffectiveIsVisible == isVisible \/ isFocused

\* const displayValue = effectiveIsVisible ? value : maskSSN(value)
DisplayValue == IF EffectiveIsVisible THEN ssnValue ELSE MaskSSN(ssnValue)

\* aria-label of the toggle button
AriaLabel == IF EffectiveIsVisible THEN "Hide SSN" ELSE "Show SSN"

\* longest input string enumerated in full
MaxInput == 4

\* The characters of those strings: two digits and a letter.
InputChars == {"1", "2", "a"}

RECURSIVE Texts(_)
Texts(n) ==
    IF n = 0 THEN {""}
    ELSE {""} \cup {c \o t : c \in InputChars, t \in Texts(n - 1)}

\* Longer strings: more than nine digits, letters before digits, a
\* formatted value, a character typed after a masked value.
LongInputs ==
    {"1234567890123", "abc123", "123-45-6789", "12345678901",
     "***-**-67891", "12 34 56 78 90", "121212", "1a2b3c4d5e6f7"}

\* The values e.target.value takes.
RawInputs == Texts(MaxInput) \cup LongInputs

\* The values formData.ssn starts from: the empty form and the sample
\* patient.
InitialValues == {"", "123-45-6789"}

\* The input is rendered with a value and with or without its toggle.
SSNInit ==
    /\ DeriverIdle
    /\ GuideIdle
    /\ SaveIdle
    /\ NormIdle
    /\ ModalIdle
    /\ ssnValue \in InitialValues
    /\ showToggle \in BOOLEAN
    /\ isVisible = FALSE
    /\ isFocused = FALSE
    /\ lastChange = <<>>

\* handleChange on an input event, and the parent storing what onChange
\* hands it.  The caret the handler then places is not part of the state.
HandleChange(newRawValue) ==
    LET digits == GetDigitsOnly(newRawValue)
        formattedValue == FormatSSN(digits)
    IN  /\ lastChange' = <<newRawValue, formattedValue>>
        /\ ssnValue' = formattedValue
        /\ UNCHANGED <<isVisible, isFocused, showToggle>>
        /\ UNCHANGED ssnOtherVars

\* handleFocus
HandleFocus ==
    /\ ~isFocused
    /\ isFocused' = TRUE
    /\ UNCHANGED <<ssnValue, isVisible, showToggle, lastChange>>
    /\ UNCHANGED ssnOtherVars

\* handleBlur
HandleBlur ==
    /\ isFocused
    /\ isFocused' = FALSE
    /\ UNCHANGED <<ssnValue, isVisible, showToggle, lastChange>>
    /\ UNCHANGED ssnOtherVars

\* toggleVisibility, on a click of the toggle button; blur() runs
\* handleBlur.
ToggleVisibility ==
    /\ showToggle
    /\ IF EffectiveIsVisible
       THEN /\ isVisible' = FALSE
            /\ isFocused' = FALSE
       ELSE /\ isVisible' = TRUE
            /\ UNCHANGED isFocused
    /\ UNCHANGED <<ssnValue, showToggle, lastChange>>
    /\ UNCHANGED ssnOtherVars

SSNNext ==
    \/ \E newRawValue \in RawInputs : HandleChange(newRawValue)
    \/ HandleFocus
    \/ HandleBlur
    \/ ToggleVisibility

SpecSSN == SSNInit /\ [][SSNNext]_vars

(***************************************************************************)
(* The tables of the report.                                               *)
(***************************************************************************)
\* The benefit b holds a keyword of a section in its name or in one of its
\* service types.
MatchesSection(b, section) ==
    /\ b.t = "object"
    /\ \E k \in 1..Len(section.keywords) :
          \/ /\ Get(b, "name").t = "string"
             /\ Includes(LowerCased(Get(b, "name").v), section.keywords[k])
          \/ /\ Get(b, "serviceTypes").t = "array"
             /\ \E j \in 1..Len(Get(b, "serviceTypes").v) :
                   /\ Get(b, "serviceTypes").v[j].t = "string"
                   /\ Includes(LowerCased(Get(b, "serviceTypes").v[j].v),
                               section.keywords[k])

\* Some benefit of the list matches some section.
SectionMatched(list) ==
    \E i \in 1..Len(list) : \E s \in 1..Len(ReportSections) :
        MatchesSection(list[i], ReportSections[s])

\* The report holds the fallback table, and the lines of that table: those
\* between its ruler and the closing block.
HasTable == \E i \in 1..Len(Report) : Report[i] = "Detailed Benefits Table:"
TableLines ==
    LET start == CHOOSE i \in 1..Len(Report) :
                    Report[i] = "Detailed Benefits Table:"
        closing == CHOOSE i \in 1..Len(Report) :
                      Report[i] = "ANNUAL BENEFIT STATUS:"
    IN  SubSeq(Report, start + 2, closing - 2)

\* The texts a benefit has to show in a table: its name or else its first
\* service type, its percentage, its amount and its coverage level.
TableTexts(b) ==
    IF b.t # "object" THEN {}
    ELSE (UNION {Leaves(Get(b, field)) :
                    field \in {"name", "benefitPercent", "benefitAmount",
                               "coverageLevel"}}
          \cup (IF Truthy(Get(b, "name")) THEN {}
                ELSE Leaves(OptFirst(Get(b, "serviceTypes"))))) \ {""}

\* The line shows the benefit.
Shows(line, b) == \A text \in TableTexts(b) : Includes(line, text)

\* C21: for a non-empty benefit list the report is not empty; the fallback
\* table is in the report exactly when no benefit matches a keyword of a
\* section, and it has one line for each of the first 20 benefits of the
\* list, in their order, and no other line.
C21_FallbackTable ==
    (Returned /\ Len(CarriedList(Input)) > 0) =>
        LET list == CarriedList(Input)
            shown == IF Len(list) < FallbackLimit THEN Len(list)
                     ELSE FallbackLimit
        IN  /\ Len(Report) > 0
            /\ HasTable <=> ~SectionMatched(list)
            /\ HasTable =>
                  /\ Len(TableLines) = shown
                  /\ \A k \in 1..shown : Shows(TableLines[k], list[k])

(***************************************************************************)
(* The Deriver on the permutations of a list.                              *)
(***************************************************************************)
\* The orders of n places.
Orders(n) ==
    {p \in [1..n -> 1..n] : \A i, j \in 1..n : i # j => p[i] # p[j]}

\* list with its transactions in the order p (the id of a transaction is
\* its place in the list).
Permuted(list, p) ==
    [k \in 1..Len(list) |-> [list[p[k]] EXCEPT !.id = k]]

\* Every transaction has a startTime and no two have the same.
DistinctStartTimes(list) ==
    /\ \A k \in 1..Len(list) : HasStartTime(list[k])
    /\ \A i, j \in 1..Len(list) :
          i # j => list[i].startTime # list[j].startTime

\* C26: for a list whose transactions all have a startTime, no two the
\* same, every permutation of the list derives the same vector, on every
\* engine.
C26_PermutationInvariant ==
    (pc = "done" /\ DistinctStartTimes(transactions)) =>
        \A p \in Orders(Len(transactions)) : \A eng \in Engines :
            DeriveStatus(Permuted(transactions, p), eng) = status

\* C26 witness: a list given in descending startTime order whose two
\* transactions write different values to a common stage.
C26_Witness ==
    /\ pc = "done"
    /\ Len(transactions) = 2
    /\ DistinctStartTimes(transactions)
    /\ transactions[1].startTime > transactions[2].startTime
    /\ ConflictingWrites(transactions[1], transactions[2])
    /\ transactions[1].type = "FETCH" /\ transactions[1].status = "Waiting"
    /\ status.fetchPMS = "in_progress"

(***************************************************************************)
(* What the SSN input hands on and shows, read off the input string.       *)
(***************************************************************************)
\* The places of s that hold a digit.
DigitPlaces(s) == {i \in 1..Len(s) : SubSeq(s, i, i) \in Digits}

\* The characters of s at the places P, in the order they have in s.
RECURSIVE CharactersAt(_, _)
CharactersAt(s, P) ==
    IF P = {} THEN ""
    ELSE SubSeq(s, SetMin(P), SetMin(P)) \o CharactersAt(s, P \ {SetMin(P)})

\* The first n digits of s.
FirstDigits(s, n) ==
    CharactersAt(s, {i \in DigitPlaces(s) :
                        Cardinality({j \in DigitPlaces(s) : j <= i}) <= n})

\* The part of d from place from to place to, as far as d goes.
Part(d, from, to) ==
    IF Len(d) < from THEN ""
    ELSE SubSeq(d, from, IF to < Len(d) THEN to ELSE Len(d))

\* d in groups of 3, 2 and 4 characters, a dash between non-empty groups.
Grouped(d) ==
    Part(d, 1, 3)
    \o (IF Part(d, 4, 5) # "" THEN "-" \o Part(d, 4, 5) ELSE "")
    \o (IF Part(d, 6, 9) # "" THEN "-" \o Part(d, 6, 9) ELSE "")

\* C24: the value handed to onChange is the first nine digits of the input
\* string, in their order, grouped 3-2-4 with a dash between non-empty
\* groups; the form stores that value.
C24_FirstNineGrouped ==
    lastChange # <<>> =>
        /\ lastChange[2] = Grouped(FirstDigits(lastChange[1], 9))
        /\ ssnValue = lastChange[2]

\* C24 witness: thirteen digits were entered and nine were handed on.
C24_Witness ==
    /\ lastChange = <<"1234567890123", "123-45-6789">>
    /\ ssnValue = "123-45-6789"

\* s with its digits of the ranks in hidden replaced by bullets, from place
\* i on, the digit at place i or after having the rank given.
RECURSIVE MaskedFrom(_, _, _, _)
MaskedFrom(s, i, rank, hidden) ==
    IF i > Len(s) THEN ""
    ELSE IF SubSeq(s, i, i) \in Digits
    THEN (IF rank \in hidden THEN Bullet ELSE SubSeq(s, i, i))
         \o MaskedFrom(s, i + 1, rank + 1, hidden)
    ELSE SubSeq(s, i, i) \o MaskedFrom(s, i + 1, rank, hidden)

\* value with every digit before its last four replaced by a bullet.
MaskedBeforeLastFour(value) ==
    MaskedFrom(value, 1, 1, 1..(Cardinality(DigitPlaces(value)) - 4))

\* The digits of value in groups of 3, of 2 and of the rest, the first five
\* digits replaced by bullets.
MaskedFirstFive(value) ==
    LET d == FirstDigits(value, Len(value))
        grouped == Part(d, 1, 3)
                   \o (IF Part(d, 4, 5) # "" THEN "-" \o Part(d, 4, 5) ELSE "")
                   \o (IF Len(d) > 5 THEN "-" \o Part(d, 6, Len(d)) ELSE "")
    IN  MaskedFrom(grouped, 1, 1, 1..5)

\* The field is neither toggled visible nor focused.
Concealed == ~isVisible /\ ~isFocused

\* C25 as stated: the field starts masked; it shows the value with every
\* digit before the last four replaced by a bullet exactly when it is
\* neither toggled visible nor focused, the toggle then labelled 'Show SSN'
\* and otherwise 'Hide SSN'; each click on the toggle flips the display
\* between masked and unmasked.
C25_MaskedBeforeLastFour ==
    /\ Concealed
    /\ [](/\ DisplayValue = IF Concealed THEN MaskedBeforeLastFour(ssnValue)
                            ELSE ssnValue
          /\ AriaLabel = IF Concealed THEN "Show SSN" ELSE "Hide SSN")
    /\ [][ToggleVisibility => (Concealed' # Concealed)]_vars

\* C25, amended: the masked form is the digits of the value grouped 3-2-rest
\* with the first five digits replaced by bullets, so that a value of five
\* digits or fewer shows no digit; the rest as stated.
C25_MaskedFirstFive ==
    /\ Concealed
    /\ [](/\ DisplayValue = IF Concealed THEN MaskedFirstFive(ssnValue)
                            ELSE ssnValue
          /\ AriaLabel = IF Concealed THEN "Show SSN" ELSE "Hide SSN")
    /\ [][ToggleVisibility => (Concealed' # Concealed)]_vars

\* C25 witness: a value of four digits was entered and the field, after
\* events on it, is masked: no digit shows.
C25_Witness ==
    /\ lastChange = <<"1212", "121-2">>
    /\ showToggle
    /\ Concealed
    /\ DisplayValue = "***-*"
    /\ AriaLabel = "Show SSN"

(***************************************************************************)
(* C27: the three verification fields of a returned row agree.             *)
(***************************************************************************)
\* The row's aiCallValue is not the empty string.
HasValue(row) == row.aiCallValue # Str("")

\* The rows of the catalog no updateRow call names.
UnmappedCodes ==
    {"VF000029", "VF000040", "VF000041", "VF000042", "VF000046", "VF000070"}

\* C27: in every returned list, a row has missing "N" exactly when its
\* verifiedBy is "API", and exactly when its aiCallValue is non-empty; this
\* holds for the rows updateRow rewrote and for the rows it never names.
C27_RowConsistency ==
    Returned =>
        \A i \in 1..Len(OutputRows) :
            /\ OutputRows[i].missing = "N" <=> OutputRows[i].verifiedBy = "API"
            /\ OutputRows[i].verifiedBy = "API" <=> HasValue(OutputRows[i])

\* A response filled one row with a value of its own, cleared a row the
\* catalog holds a value for, and left the unmapped rows as they were.
C27_Witness ==
    /\ Returned
    /\ \E i \in 1..Len(OutputRows) :
           /\ OutputRows[i].missing = "N"
           /\ OutputRows[i].aiCallValue # API_VERIFICATION_DATA[i].aiCallValue
    /\ \E i \in 1..Len(OutputRows) :
           /\ OutputRows[i].missing = "Y"
           /\ API_VERIFICATION_DATA[i].missing = "N"
    /\ \A i \in 1..Len(OutputRows) :
           OutputRows[i].saiCode \in UnmappedCodes =>
               OutputRows[i] = API_VERIFICATION_DATA[i]

(***************************************************************************)
(* The verification modal, CoverageVerificationResults: the auto-start     *)
(* effect, startVerification with its awaits, resetModal, handleClose and  *)
(* the two saves.  The component stays mounted while closed (it renders    *)
(* null), so its state hooks and its timeouts outlive a close.             *)
(***************************************************************************)
StediModes == {"mockup", "test-data", "real-data"}

\* patient: undefined or without id, with an id and no insurance, with an
\* id and insurance.
PatientProps == {"none", "uninsured", "insured"}

\* What the renders of a session close over.  isRealDataMode is
\* currentUser?.stediMode && currentUser.stediMode !== 'mockup', false
\* while currentUser is null; bodyNamesBound tells whether the free names
\* dataMode and stediTest of saveCoverageByCodeData resolve to a global.
Sessions ==
    [stediMode : StediModes, patient : PatientProps, isRealDataMode : BOOLEAN,
     bodyNamesBound : BOOLEAN]

\* The text of apiResponseText, by its origin, as the value JSON.parse
\* gives back.
ApiResponse(origin) ==
    CASE origin = "sample" ->
             Obj([verification_id |-> Str("VER-2025-001234"),
                  benefits |-> Obj([annual_maximum |-> Num(2000),
                                    deductible |-> Num(50)])])
      [] origin = "missingInsurance" ->
             Obj([error |-> Str("Patient insurance information is missing. Cannot perform real-time verification."),
                  fallback |-> Str("Using sample data for demonstration purposes.")])
      [] origin = "eligibility" ->
             Obj([plan |-> Obj([planName |-> Str("Dental PPO")]),
                  benefits |-> Arr(<<Obj([code |-> Str("D"),
                                          name |-> Str("Annual Maximum"),
                                          benefitAmount |-> Str("1200")])>>)])
      [] origin = "malformed" ->
             Obj([benefits |-> Arr(<<Null>>)])

\* The origins of apiResponseText.
Origins == {"sample", "missingInsurance", "eligibility", "malformed"}

\* The texts on which parseStediResponse(JSON.parse(apiResponseText))
\* throws.
Unparsable ==
    {origin \in Origins :
        ParseStediResponse(ApiResponse(origin),
                           JsonCopy(API_VERIFICATION_DATA)).threw}

\* The payloads that report an error in place of an eligibility response.
ErrorPayloads == {"missingInsurance"}

\* How the promise of verifyStediAPI settles: with data the Normalizer
\* accepts, data it throws on, no data, or rejected.
ApiOutcomes == {"eligibility", "malformed", "noData", "rejected"}

\* How the GET of saveTransactionHistory settles: a Waiting transaction of
\* the patient is found, none is, or the request fails.
LookupOutcomes == {"found", "none", "rejected"}

\* const startVerification = async () => { ... } before its first line ran.
Scheduled ==
    [pc |-> "scheduled", apiResponseText |-> "none", parsed |-> FALSE,
     finalVerificationData |-> "none"]

ModalInit ==
    /\ DeriverIdle
    /\ GuideIdle
    /\ SaveIdle
    /\ NormIdle
    /\ SSNIdle
    /\ session \in Sessions
    /\ isOpen = FALSE
    /\ opens = 0
    /\ currentStep = "idle"
    /\ step1Status = "pending"
    /\ step2Status = "pending"
    /\ step3Status = "pending"
    /\ verifications = <<>>
    /\ resetTimeouts = 0
    /\ sentRequests = {}
    /\ lastClick = "none"

\* The parent sets isOpen, and the effect on [isOpen] runs: it schedules
\* startVerification if currentStep is idle in that render.
Open ==
    /\ ~isOpen
    /\ opens < MaxOpens
    /\ isOpen' = TRUE
    /\ opens' = opens + 1
    /\ verifications' =
          IF currentStep = "idle" THEN Append(verifications, Scheduled)
          ELSE verifications
    /\ UNCHANGED <<session, currentStep, step1Status, step2Status,
                   step3Status, resetTimeouts, sentRequests, lastClick>>
    /\ UNCHANGED modalOtherVars

\* resetModal
ResetModal ==
    /\ currentStep' = "idle"
    /\ step1Status' = "pending"
    /\ step2Status' = "pending"
    /\ step3Status' = "pending"

\* handleClose: onClose(), and resetModal scheduled 300 ms later.
HandleClose ==
    /\ isOpen
    /\ isOpen' = FALSE
    /\ resetTimeouts' = resetTimeouts + 1
    /\ lastClick' = "Close"
    /\ UNCHANGED <<session, opens, currentStep, step1Status, step2Status,
                   step3Status, verifications, sentRequests>>
    /\ UNCHANGED modalOtherVars

\* A timeout of handleClose fires.
ResetTimeout ==
    /\ resetTimeouts > 0
    /\ resetTimeouts' = resetTimeouts - 1
    /\ ResetModal
    /\ UNCHANGED <<session, isOpen, opens, verifications, sentRequests,
                   lastClick>>
    /\ UNCHANGED modalOtherVars

\* The 'Run Again' button, rendered while step 3 is completed:
\* onClick={resetModal}.
RunAgain ==
    /\ isOpen
    /\ step3Status = "completed"
    /\ ResetModal
    /\ lastClick' = "Run Again"
    /\ UNCHANGED <<session, isOpen, opens, verifications, resetTimeouts,
                   sentRequests>>
    /\ UNCHANGED modalOtherVars

\* The timeout of the effect fires: startVerification up to its first
\* await.
StartVerification(i) ==
    /\ verifications[i].pc = "scheduled"
    /\ currentStep' = "step1"
    /\ step1Status' = "in_progress"
    /\ verifications' = [verifications EXCEPT ![i].pc = "step1"]
    /\ UNCHANGED <<session, isOpen, opens, step2Status, step3Status,
                   resetTimeouts, sentRequests, lastClick>>
    /\ UNCHANGED modalOtherVars

\* From setStep1Text(apiResponseText) to the await before step 2: step 1
\* is completed and, outside mockup mode, the text is parsed and handed to
\* parseStediResponse; if that throws, the static catalog is kept.
ShowResponse(i, origin) ==
    LET parses == session.stediMode # "mockup"
    IN  /\ step1Status' = "completed"
        /\ verifications' =
              [verifications EXCEPT ![i] =
                  [pc |-> "beforeStep2",
                   apiResponseText |-> origin,
                   parsed |-> parses,
                   finalVerificationData |->
                       IF parses /\ origin \notin Unparsable THEN "parsed"
                       ELSE "API_VERIFICATION_DATA"]]
        /\ UNCHANGED <<session, isOpen, opens, currentStep, step2Status,
                       step3Status, resetTimeouts, sentRequests, lastClick>>
        /\ UNCHANGED modalOtherVars

\* After the first 50 ms: the branch on stediMode.  Mockup mode and
\* real-data mode without insurance go on without a request; the other two
\* branches await verifyStediAPI.
Step1(i) ==
    /\ verifications[i].pc = "step1"
    /\ IF session.stediMode = "mockup" THEN ShowResponse(i, "sample")
       ELSE IF session.stediMode = "real-data" /\ session.patient # "insured"
       THEN ShowResponse(i, "missingInsurance")
       ELSE /\ verifications' = [verifications EXCEPT ![i].pc = "api"]
            /\ UNCHANGED <<session, isOpen, opens, currentStep, step1Status,
                           step2Status, step3Status, resetTimeouts,
                           sentRequests, lastClick>>
            /\ UNCHANGED modalOtherVars

\* verifyStediAPI settles.  A rejection reaches the catch of
\* startVerification; a result without data leaves SAMPLE_API_RESPONSE.
ApiSettles(i, outcome) ==
    /\ verifications[i].pc = "api"
    /\ IF outcome = "rejected"
       THEN /\ step1Status' = "completed"
            /\ verifications' = [verifications EXCEPT ![i].pc = "failed"]
            /\ UNCHANGED <<session, isOpen, opens, currentStep, step2Status,
                           step3Status, resetTimeouts, sentRequests,
                           lastClick>>
            /\ UNCHANGED modalOtherVars
       ELSE ShowResponse(i, IF outcome = "noData" THEN "sample" ELSE outcome)

\* After 100 ms: step 2.  typeText with speed 0 resolves at once, so
\* in_progress and completed are set in the same turn of the event loop.
Step2(i) ==
    /\ verifications[i].pc = "beforeStep2"
    /\ currentStep' = "step2"
    /\ step2Status' = "completed"
    /\ verifications' = [verifications EXCEPT ![i].pc = "beforeStep3"]
    /\ UNCHANGED <<session, isOpen, opens, step1Status, step3Status,
                   resetTimeouts, sentRequests, lastClick>>
    /\ UNCHANGED modalOtherVars

\* After 100 ms: step 3 starts.
Step3(i) ==
    /\ verifications[i].pc = "beforeStep3"
    /\ currentStep' = "step3"
    /\ step3Status' = "in_progress"
    /\ verifications' = [verifications EXCEPT ![i].pc = "step3"]
    /\ UNCHANGED <<session, isOpen, opens, step1Status, step2Status,
                   resetTimeouts, sentRequests, lastClick>>
    /\ UNCHANGED modalOtherVars

\* Both saves return at once without a patient id or when isRealDataMode
\* is falsy.
Saves == session.patient # "none" /\ session.isRealDataMode

\* saveCoverageByCodeData: the request is sent if its body can be built.
CoverageRequests(i) ==
    IF Saves /\ session.bodyNamesBound
    THEN {[url |-> "/api/coverage-by-code", method |-> "POST",
           verification |-> i,
           rawResponse |-> "none",
           status |-> "none",
           coverageData |-> verifications[i].finalVerificationData]}
    ELSE {}

\* After 50 ms: step 3 is completed and the two saves are called;
\* saveTransactionHistory goes on after its GET.
CompleteStep3(i) ==
    /\ verifications[i].pc = "step3"
    /\ step3Status' = "completed"
    /\ sentRequests' = sentRequests \cup CoverageRequests(i)
    /\ verifications' =
          [verifications EXCEPT ![i].pc = IF Saves THEN "saving" ELSE "done"]
    /\ UNCHANGED <<session, isOpen, opens, currentStep, step1Status,
                   step2Status, resetTimeouts, lastClick>>
    /\ UNCHANGED modalOtherVars

\* saveTransactionHistory after its GET: the transaction of the run is PUT
\* over the Waiting one or POSTed; a failed GET is swallowed by the catch.
SaveTransaction(i, lookup) ==
    /\ verifications[i].pc = "saving"
    /\ sentRequests' =
          IF lookup = "rejected" THEN sentRequests
          ELSE sentRequests \cup
               {[url |-> "/api/transactions",
                 method |-> IF lookup = "found" THEN "PUT" ELSE "POST",
                 verification |-> i,
                 rawResponse |-> verifications[i].apiResponseText,
                 status |-> "SUCCESS",
                 coverageData |-> verifications[i].finalVerificationData]}
    /\ verifications' = [verifications EXCEPT ![i].pc = "done"]
    /\ UNCHANGED <<session, isOpen, opens, currentStep, step1Status,
                   step2Status, step3Status, resetTimeouts, lastClick>>
    /\ UNCHANGED modalOtherVars

\* What the event loop runs without the user: timeouts and settled promises.
ModalProgress ==
    \/ ResetTimeout
    \/ \E i \in DOMAIN verifications :
           \/ StartVerification(i)
           \/ Step1(i)
           \/ \E outcome \in ApiOutcomes : ApiSettles(i, outcome)
           \/ Step2(i)
           \/ Step3(i)
           \/ CompleteStep3(i)
           \/ \E lookup \in LookupOutcomes : SaveTransaction(i, lookup)

ModalNext ==
    \/ Open
    \/ HandleClose
    \/ RunAgain
    \/ ModalProgress

SpecModal == ModalInit /\ [][ModalNext]_vars

\* Every timeout fires and every request settles.
SpecModalLive == SpecModal /\ WF_vars(ModalProgress)

(***************************************************************************)
(* C28: the order of the three steps.                                      *)
(***************************************************************************)
\* C28: in every reachable state, whatever the interleaving of a running
\* startVerification with close, resetModal and a re-open, step2Status is
\* not pending only if step1Status is completed, and step3Status is not
\* pending only if step2Status is completed.
C28_StepOrdering ==
    /\ step2Status # "pending" => step1Status = "completed"
    /\ step3Status # "pending" => step2Status = "completed"

(***************************************************************************)
(* C30: the modal after a close.                                           *)
(***************************************************************************)
\* The modal is closed and every resetModal that handleClose scheduled has
\* run.
ClosedAndReset == ~isOpen /\ opens > 0 /\ resetTimeouts = 0

\* C30: once the delayed resetModal of handleClose has run, currentStep is
\* idle and the three statuses are pending, and they stay so until the
\* modal is opened again, also when a run was in flight at the close; the
\* next open schedules a fresh run.
C30_CleanAfterClose ==
    /\ [](ClosedAndReset =>
             /\ currentStep = "idle"
             /\ step1Status = "pending"
             /\ step2Status = "pending"
             /\ step3Status = "pending")
    /\ [][(ClosedAndReset /\ isOpen') =>
             Len(verifications') = Len(verifications) + 1]_vars

(***************************************************************************)
(* C23: a run whose payload is an error.                                   *)
(***************************************************************************)
\* C23: a run whose payload reports an error (real-data mode without
\* patient insurance) does not hand that payload to parseStediResponse,
\* and no request carries rows or an API transaction with status SUCCESS
\* derived from it.
C23_ErrorSurfacedBeforeNormalizer ==
    \A i \in DOMAIN verifications :
        verifications[i].apiResponseText \in ErrorPayloads =>
            /\ ~verifications[i].parsed
            /\ \A request \in sentRequests :
                   request.verification = i =>
                       /\ request.status # "SUCCESS"
                       /\ request.coverageData # "parsed"

(***************************************************************************)
(* C22: the rows of a completed run reach the coverage-by-code store.      *)
(***************************************************************************)
\* The i-th run has completed step 3.
CompletedStep3(i) ==
    /\ i \in DOMAIN verifications
    /\ verifications[i].pc \in {"saving", "done"}

\* The rows the Normalizer produced in the i-th run were POSTed to
\* /api/coverage-by-code/{patientId}.
CoverageSent(i) ==
    \E request \in sentRequests :
        /\ request.url = "/api/coverage-by-code"
        /\ request.method = "POST"
        /\ request.verification = i
        /\ request.coverageData = "parsed"

\* C22: after a run in a non-mockup mode for a patient with an id has
\* completed step 3, the rows the Normalizer produced are eventually POSTed
\* to /api/coverage-by-code/{patientId}.
C22_RowsEventuallySent ==
    \A i \in 1..MaxOpens :
        (/\ session.stediMode # "mockup"
         /\ session.patient # "none"
         /\ CompletedStep3(i)) ~> CoverageSent(i)

(***************************************************************************)
(* C29: Run Again.                                                         *)
(***************************************************************************)
\* 'Run Again' was the last button clicked, and the modal is still open.
RunAgainClicked == lastClick = "Run Again" /\ isOpen

\* The request of some run was rejected.
ApiCallFailed ==
    \E i \in DOMAIN verifications : verifications[i].pc = "failed"

\* C29: when the modal is open with step 3 completed and the user clicks
\* 'Run Again', a new run starts and, unless the API call fails or the
\* modal is closed, step 3 is eventually completed again.
C29_RunAgainRestarts ==
    RunAgainClicked ~> (step3Status = "completed" \/ ApiCallFailed \/ ~isOpen)

====
